---------------------------- MODULE Spec2Model ----------------------------
(***************************************************************************)
(* Model of the tech-roadmap backend (backend/app): the project table,     *)
(* the dependency resolver, work sessions and the routes that drive them.  *)
(*                                                                         *)
(* One request is one transaction (core/database.py get_db): the route     *)
(* runs, then the session commits; an exception rolls everything back.     *)
(* Every action below is therefore one whole request: it either installs   *)
(* the state the handler built or leaves the tables untouched, and it      *)
(* records the request and its response in `last`.  Requests that overlap  *)
(* are modelled in two steps, the reads of the transaction and its commit, *)
(* with the transaction held in `inflight` in between.                     *)
(***************************************************************************)
EXTENDS Integers, Sequences, FiniteSets, TLC

VARIABLES
    users,      \* users table: user id -> [email, username]
    profiles,   \* user_profiles table: user id -> [xp, level, unlocked_badges]
    projects,   \* projects table: project id (the primary key) -> row
    sessions,   \* work_sessions table: session id -> [project_id, duration_seconds]
    inflight,   \* the requests in flight: request number -> what its transaction holds
    last        \* the last request and its response

vars == <<users, profiles, projects, sessions, inflight, last>>

-----------------------------------------------------------------------------
(* Bounds of the model *)

\* at most this many work sessions are stored
MaxSessions == 2

\* user ids handed out by generate_id, in the order of registration
UserIds == <<"u1", "u2">>

\* registration requests: <<email, username>>
RegInputs == {<<"a@x.io", "alice">>, <<"b@x.io", "bob">>}

\* an id no project ever has
UnknownId == "zz"

\* no id: the id field of a create request left out
NoId == ""

\* the ids create_project generates ("custom_" and eight characters of a uuid)
CustomIds == {"custom_1"}

\* ids a create request may carry: none, or one a caller chooses
CreateIds == {NoId, "custom_1"}

\* ids an update request may name
UpdateIds == {"p1_1", "p1_2"}

\* ids a delete request may name
DeleteIds == {"p1_1", "p1_2", "custom_1"}

\* ids a read or an add-session request may name
ReadIds == {"p1_1", UnknownId}

\* dependency lists a create request may carry
DepChoices == {<<>>, <<"p1_1">>, <<"p1_2", UnknownId>>}

\* durations (seconds) an add-session request may carry
Durations == {1800, 3600}

-----------------------------------------------------------------------------
(* models.py ProjectStatus *)
LOCKED == "locked"
UNLOCKED == "unlocked"
IN_PROGRESS == "in_progress"
DONE == "done"
ProjectStatus == {LOCKED, UNLOCKED, IN_PROGRESS, DONE}

(* constants.py INITIAL_DATASET: id, status, dependencies, time_spent_hours *)
(* (hours in tenths; the other columns play no part in the operations).    *)
INITIAL_DATASET ==
    << [id |-> "p1_1", status |-> DONE,     dependencies |-> <<>>,               time_spent_hours |-> 120],
       [id |-> "p1_2", status |-> UNLOCKED, dependencies |-> <<"p1_1">>,         time_spent_hours |-> 0],
       [id |-> "p1_3", status |-> LOCKED,   dependencies |-> <<"p1_2">>,         time_spent_hours |-> 0],
       [id |-> "p2_1", status |-> LOCKED,   dependencies |-> <<"p1_1">>,         time_spent_hours |-> 0],
       [id |-> "p2_2", status |-> LOCKED,   dependencies |-> <<"p2_1">>,         time_spent_hours |-> 0],
       [id |-> "p2_3", status |-> LOCKED,   dependencies |-> <<"p2_1", "p2_2">>, time_spent_hours |-> 0],
       [id |-> "p2_4", status |-> LOCKED,   dependencies |-> <<"p2_1">>,         time_spent_hours |-> 0],
       [id |-> "p3_1", status |-> LOCKED,   dependencies |-> <<"p2_3">>,         time_spent_hours |-> 0],
       [id |-> "p3_2", status |-> LOCKED,   dependencies |-> <<"p2_4">>,         time_spent_hours |-> 0],
       [id |-> "p4_1", status |-> LOCKED,   dependencies |-> <<"p3_1", "p3_2">>, time_spent_hours |-> 0] >>

SeedIds == {INITIAL_DATASET[i].id : i \in 1..Len(INITIAL_DATASET)}

(* constants.py RANKS: id, title, min_xp *)
RANKS ==
    << [id |-> "novice",     title |-> "Script Kiddie",   min_xp |-> 0],
       [id |-> "apprentice", title |-> "Code Monkey",     min_xp |-> 1000],
       [id |-> "journeyman", title |-> "Full Stack Dev",  min_xp |-> 3000],
       [id |-> "expert",     title |-> "Tech Lead",       min_xp |-> 8000],
       [id |-> "master",     title |-> "SysAdmin Wizard", min_xp |-> 15000],
       [id |-> "legend",     title |-> "10x Engineer",    min_xp |-> 30000] >>

-----------------------------------------------------------------------------
(* Helpers on sequences and tables *)

\* the elements of a sequence
Range(s) == {s[i] : i \in 1..Len(s)}

\* [d for d in deps if d != x]
RECURSIVE Without(_, _)
Without(deps, x) ==
    IF deps = <<>> THEN <<>>
    ELSE IF Head(deps) = x THEN Without(Tail(deps), x)
         ELSE <<Head(deps)>> \o Without(Tail(deps), x)

\* sum of duration_seconds over a set of session ids of table ss
RECURSIVE SumDurations(_, _)
SumDurations(ss, ids) ==
    IF ids = {} THEN 0
    ELSE LET s == CHOOSE x \in ids : TRUE
         IN  ss[s].duration_seconds + SumDurations(ss, ids \ {s})

\* the totals between -10800 and 10800 seconds that lie halfway between two
\* tenths of an hour and that round(total_seconds / 3600, 1) rounds to the
\* upper one: the float quotient is not the exact quotient, so that a half
\* goes up or down with the binary value (180 s -> 0.1, 540 s -> 0.1)
FloatHalvesUp ==
    {-9540, -9180, -8100, -7740, -7380, -7020, -5940, -5220, -4500, -4140,
     -3420, -3060, -1260, -900, -540, 180, 1620, 1980, 2340, 2700, 3780, 4860,
     5580, 6300, 6660, 8460, 8820, 9900, 10260, 10620}

\* round(total_seconds / 3600, 1), in tenths of an hour
RoundHours(total_seconds) ==
    LET tenths == (total_seconds * 10) \div 3600
        rest   == (total_seconds * 10) % 3600
    IN  IF rest < 1800 THEN tenths
        ELSE IF rest > 1800 THEN tenths + 1
        ELSE IF total_seconds \in FloatHalvesUp THEN tenths + 1
        ELSE tenths

\* a table without the rows of keys ks
Drop(tbl, ks) == [k \in (DOMAIN tbl) \ ks |-> tbl[k]]

\* a table with row r under key k
Put(tbl, k, r) == [x \in (DOMAIN tbl) \cup {k} |-> IF x = k THEN r ELSE tbl[x]]


-----------------------------------------------------------------------------
(* constants.py: ranks and levels *)

\* if xp > rank["min_xp"], for one rank of the table
RankReached_strict(xp, rank) == xp > rank.min_xp

\* if xp >= rank["min_xp"], for one rank of the table
RankReached(xp, rank) == xp >= rank.min_xp

\* the loop of get_rank_for_xp from rank i on, current_rank being the last match
RECURSIVE RankScan(_, _, _)
RankScan(xp, i, current_rank) ==
    IF i > Len(RANKS) THEN current_rank
    ELSE RankScan(xp, i + 1, IF RankReached(xp, RANKS[i]) THEN RANKS[i] ELSE current_rank)

\* get_rank_for_xp: current_rank = RANKS[0], then the loop over RANKS
get_rank_for_xp(xp) == RankScan(xp, 1, RANKS[1])

\* the least k from k on with k * k >= n
RECURSIVE RootCeil(_, _)
RootCeil(n, k) == IF k * k >= n THEN k ELSE RootCeil(n, k + 1)

\* the largest r in lo..hi with r * r <= n (lo * lo <= n)
RECURSIVE RootFloor(_, _, _)
RootFloor(n, lo, hi) ==
    IF lo >= hi THEN lo
    ELSE LET mid == (lo + hi + 1) \div 2
         IN  IF mid * mid <= n THEN RootFloor(n, mid, hi) ELSE RootFloor(n, lo, mid - 1)

\* int(100 * (level ** 2))
get_next_level_xp_squared(level) == 100 * level * level

\* get_next_level_xp: int(100 * (level ** 1.5)), the integer part of
\* 100 * level * sqrt(level), which is the root of 10000 * level^3 and at
\* most 100 * level * RootCeil(level)
get_next_level_xp(level) ==
    RootFloor(10000 * level * level * level, 0, 100 * level * RootCeil(level, 0))

-----------------------------------------------------------------------------
(* crud.py: the operations, as functions of the tables *)

\* str.lower() on the strings of the model
Lower(s) ==
    CASE s = "A@x.io" -> "a@x.io"
      [] s = "Alice"  -> "alice"
      [] OTHER        -> s

\* generate_id(): a fresh id; the unused user id of least index
generate_id(used) ==
    UserIds[CHOOSE i \in 1..Len(UserIds) :
                /\ UserIds[i] \notin used
                /\ \A j \in 1..(i - 1) : UserIds[j] \in used]

\* generate_id() for a work session: the least unused session number
generate_session_id(ss) == CHOOSE n \in 1..(MaxSessions + 1) :
                               /\ n \notin DOMAIN ss
                               /\ \A m \in 1..(n - 1) : m \in DOMAIN ss

\* get_user_by_email: the ids of the users stored under email.lower()
get_user_by_email(us, email) == {u \in DOMAIN us : us[u].email = Lower(email)}

\* get_user_by_username: the ids of the users stored under username.lower()
get_user_by_username(us, username) == {u \in DOMAIN us : us[u].username = Lower(username)}

\* get_projects_by_user: the ids of the rows with Project.user_id == user_id
get_projects_by_user(tbl, user_id) == {p \in DOMAIN tbl : tbl[p].user_id = user_id}

\* get_project_by_id without the user check
get_project_by_id_any_owner(tbl, project_id, user_id) ==
    {p \in DOMAIN tbl : p = project_id}

\* get_project_by_id: the row with that id AND that owner, or nothing
get_project_by_id(tbl, project_id, user_id) ==
    {p \in DOMAIN tbl : p = project_id /\ tbl[p].user_id = user_id}

\* project.sessions: the ids of the sessions whose project_id is the project's
SessionsOf(ss, project_id) == {s \in DOMAIN ss : ss[s].project_id = project_id}

\* completed_ids over the done projects of every user
completed_ids_any_owner(tbl, user_id) == {p \in DOMAIN tbl : tbl[p].status = DONE}

\* completed_ids that counts every project that is not locked
completed_ids_not_locked(tbl, user_id) ==
    {p \in get_projects_by_user(tbl, user_id) : tbl[p].status # LOCKED}

\* completed_ids = {p.id for p in projects if p.status == DONE}
completed_ids(tbl, user_id) ==
    {p \in get_projects_by_user(tbl, user_id) : tbl[p].status = DONE}

\* all(dep_id in completed_ids for dep_id in project.dependencies)
all_deps_met(completed, dependencies) ==
    \A i \in 1..Len(dependencies) : dependencies[i] \in completed

\* the loop body that never locks an unlocked project again
ResolveRow_no_relock(row, completed) ==
    IF row.status \in {DONE, IN_PROGRESS} THEN row
    ELSE IF all_deps_met(completed, row.dependencies) /\ row.status = LOCKED
         THEN [row EXCEPT !.status = UNLOCKED]
    ELSE row

\* the loop body that locks every project that is not done and has unmet dependencies
ResolveRow_relock_active(row, completed) ==
    IF row.status = DONE THEN row
    ELSE IF all_deps_met(completed, row.dependencies) /\ row.status = LOCKED
         THEN [row EXCEPT !.status = UNLOCKED]
    ELSE IF ~all_deps_met(completed, row.dependencies)
         THEN [row EXCEPT !.status = LOCKED]
    ELSE row

\* the body of the loop of check_project_dependencies, for one project
ResolveRow(row, completed) ==
    IF row.status \in {DONE, IN_PROGRESS} THEN row
    ELSE IF all_deps_met(completed, row.dependencies) /\ row.status = LOCKED
         THEN [row EXCEPT !.status = UNLOCKED]
    ELSE IF ~all_deps_met(completed, row.dependencies) /\ row.status = UNLOCKED
         THEN [row EXCEPT !.status = LOCKED]
    ELSE row

\* a pass that loops over the projects of every user
check_project_dependencies_every_user(tbl, user_id) ==
    LET completed == completed_ids(tbl, user_id)
    IN  [p \in DOMAIN tbl |-> ResolveRow(tbl[p], completed)]

\* check_project_dependencies: one resolver pass over the projects of user_id.
\* completed_ids is taken before the loop and the loop never makes or unmakes
\* a done project, so the rows are independent of the order of the loop.
check_project_dependencies(tbl, user_id) ==
    LET completed == completed_ids(tbl, user_id)
    IN  [p \in DOMAIN tbl |->
            IF tbl[p].user_id = user_id THEN ResolveRow(tbl[p], completed) ELSE tbl[p]]

\* schemas.ProjectCreate: the fields of the request body the schema keeps
\* (status, checklist and resources are no fields of it and are dropped)
ProjectCreate(body) == [id |-> body.id, dependencies |-> body.dependencies]

\* project_id = project_data.id or f"custom_{generate_id()[:8]}": the id of
\* the request, or a generated id no project has
ProjectIdFor(tbl, project_data) ==
    IF project_data.id # NoId THEN project_data.id
    ELSE CHOOSE c \in CustomIds : c \notin DOMAIN tbl

\* the Project row with the status the requests of the model carry (done)
NewProject_status_from_request(user_id, project_data) ==
    [user_id          |-> user_id,
     status           |-> DONE,
     dependencies     |-> project_data.dependencies,
     checklist        |-> <<>>,
     resources        |-> <<>>,
     time_spent_hours |-> 0]

\* the Project row create_project builds
NewProject(user_id, project_data) ==
    [user_id          |-> user_id,
     status           |-> LOCKED,
     dependencies     |-> project_data.dependencies,
     checklist        |-> <<>>,
     resources        |-> <<>>,
     time_spent_hours |-> 0]

\* create_project without the resolver pass
create_project_no_resolve(tbl, user_id, project_data) ==
    Put(tbl, ProjectIdFor(tbl, project_data), NewProject(user_id, project_data))

\* create_project: db.add, flush, then the resolver
create_project(tbl, user_id, project_data) ==
    check_project_dependencies(
        Put(tbl, ProjectIdFor(tbl, project_data), NewProject(user_id, project_data)),
        user_id)

\* an update that replaces the project: a list the request leaves out is emptied
ApplyPatch_replace(row, update_data) ==
    [f \in DOMAIN row |->
        IF f \in DOMAIN update_data THEN update_data[f]
        ELSE IF f \in {"checklist", "resources", "dependencies"} THEN <<>>
        ELSE row[f]]

\* for field, value in update_data.items(): setattr(project, field, value)
ApplyPatch(row, update_data) ==
    [f \in DOMAIN row |-> IF f \in DOMAIN update_data THEN update_data[f] ELSE row[f]]

\* update_data as the request gave it, sessions or not
WithSessionTime_caller_wins(ss, project_id, update_data) == update_data

\* update_data after "Recalculate time from sessions if sessions exist"
WithSessionTime(ss, project_id, update_data) ==
    IF SessionsOf(ss, project_id) # {}
    THEN [f \in (DOMAIN update_data) \cup {"time_spent_hours"} |->
            IF f = "time_spent_hours"
            THEN RoundHours(SumDurations(ss, SessionsOf(ss, project_id)))
            ELSE update_data[f]]
    ELSE update_data

\* None: the value of a field a request sets to null
None == "None"

\* db.flush() raises an IntegrityError: status is a NOT NULL column (a
\* dependencies of None is stored as the JSON value null)
flush_raises(row) == row.status = None

\* check_project_dependencies raises a TypeError: the loop iterates over
\* the dependencies of a project it does not skip, and they are None
resolver_raises(tbl, user_id) ==
    \E p \in get_projects_by_user(tbl, user_id) :
        tbl[p].status \notin {DONE, IN_PROGRESS} /\ tbl[p].dependencies = None

\* the validation of the response raises: ProjectResponse.dependencies is a List[str]
response_raises(row) == row.dependencies = None

\* update_project or the route's answer raises: at the flush, in the
\* resolver pass, or when the project is returned
update_raises(tbl, ss, project_id, user_id, update_data) ==
    LET patched == [tbl EXCEPT ![project_id] =
                       ApplyPatch(tbl[project_id], WithSessionTime(ss, project_id, update_data))]
    IN  \/ flush_raises(patched[project_id])
        \/ resolver_raises(patched, user_id)
        \/ response_raises(patched[project_id])

\* update_project on a project the caller owns: patch, flush, then the resolver
update_project(tbl, ss, project_id, user_id, update_data) ==
    check_project_dependencies(
        [tbl EXCEPT ![project_id] =
            ApplyPatch(tbl[project_id], WithSessionTime(ss, project_id, update_data))],
        user_id)

\* a delete that leaves the sessions of the project behind
cascade_delete_none(ss, project_id) == ss

\* Project.sessions cascade="all, delete-orphan" (and the foreign key with
\* ondelete CASCADE): the sessions of a deleted project are deleted with it
cascade_delete(ss, project_id) == Drop(ss, SessionsOf(ss, project_id))

\* delete_project without the loop over all_projects
PurgeDependency_none(tbl, project_id, user_id) == tbl

\* delete_project, the loop over all_projects: the id leaves every dependency list
PurgeDependency(tbl, project_id, user_id) ==
    [p \in DOMAIN tbl |->
        IF tbl[p].user_id = user_id /\ project_id \in Range(tbl[p].dependencies)
        THEN [tbl[p] EXCEPT !.dependencies = Without(tbl[p].dependencies, project_id)]
        ELSE tbl[p]]

\* delete_project on a project the caller owns: purge, delete, flush, resolver
delete_project(tbl, project_id, user_id) ==
    check_project_dependencies(
        Drop(PurgeDependency(tbl, project_id, user_id), {project_id}), user_id)

\* seed_initial_projects: one row per entry of INITIAL_DATASET, status as given
seed_initial_projects(tbl, user_id) ==
    [p \in (DOMAIN tbl) \cup SeedIds |->
        IF p \in SeedIds
        THEN LET d == INITIAL_DATASET[CHOOSE i \in 1..Len(INITIAL_DATASET) :
                                          INITIAL_DATASET[i].id = p]
             IN  [user_id          |-> user_id,
                  status           |-> d.status,
                  dependencies     |-> d.dependencies,
                  checklist        |-> <<>>,
                  resources        |-> <<>>,
                  time_spent_hours |-> d.time_spent_hours]
        ELSE tbl[p]]

\* create_user: the user row and its profile row
NewUser(user_data) == [email |-> Lower(user_data[1]), username |-> Lower(user_data[2])]
NewProfile == [xp |-> 0, level |-> 1, unlocked_badges |-> {}]

\* the unique indexes of users (email, username): does the INSERT of user hit one?
UniqueViolation(us, user) ==
    \E u \in DOMAIN us : us[u].email = user.email \/ us[u].username = user.username

\* the primary key of projects: does the INSERT of the seed rows hit it?
SeedKeyViolation(tbl) == SeedIds \cap DOMAIN tbl # {}

\* the tables as a registration has flushed them: create_user, then
\* seed_initial_projects
register_flushed(db, user_id, user_data) ==
    [users    |-> Put(db.users, user_id, NewUser(user_data)),
     profiles |-> Put(db.profiles, user_id, NewProfile),
     projects |-> seed_initial_projects(db.projects, user_id)]

\* get_db that commits what was flushed whether the request raised or not
get_db_commit_always(committed, flushed, raised) == flushed

\* get_db: commit what the request flushed, or roll back if it raised
get_db(committed, flushed, raised) == IF raised THEN committed ELSE flushed

\* the projects table after the commit of a transaction that read the table
\* `read` and left it as `flushed` in its session: the unit of work INSERTs
\* the rows it added and UPDATEs, in the rows it changed, the columns it
\* changed; every other row and column is as committed by then
commit_projects(tbl, read, flushed) ==
    [p \in (DOMAIN tbl) \cup ((DOMAIN flushed) \ (DOMAIN read)) |->
        IF p \in (DOMAIN flushed) \ (DOMAIN read) THEN flushed[p]
        ELSE IF p \in (DOMAIN flushed) \cap (DOMAIN read)
             THEN [f \in DOMAIN tbl[p] |->
                      IF flushed[p][f] # read[p][f] THEN flushed[p][f] ELSE tbl[p][f]]
        ELSE tbl[p]]

\* the commit raises: an INSERT meets a committed row with its primary key
commit_raises(tbl, read, flushed) ==
    ((DOMAIN flushed) \ (DOMAIN read)) \cap (DOMAIN tbl) # {}

\* the user_profiles table after the commit of a transaction that read the
\* table `read` and left it as `flushed`: the UPDATE of a profile sets the
\* columns the request changed to the values it computed (SET xp = value)
commit_profiles(prof, read, flushed) ==
    [u \in DOMAIN prof |->
        IF u \in (DOMAIN flushed) \cap (DOMAIN read)
        THEN [f \in DOMAIN prof[u] |->
                 IF flushed[u][f] # read[u][f] THEN flushed[u][f] ELSE prof[u][f]]
        ELSE prof[u]]

\* the characters str.isalnum() accepts, among those of the model
AlnumChars == {"a", "b", "c", "d", "e", "h", "i", "l", "o", "p", "r", "s", "t", "w", "x", "A"}

\* str.lower(), character by character
LowerChars(cs) == [i \in 1..Len(cs) |-> IF cs[i] = "A" THEN "a" ELSE cs[i]]

\* the str of a sequence of characters
RECURSIVE Text(_)
Text(cs) == IF cs = <<>> THEN "" ELSE Head(cs) \o Text(Tail(cs))

\* v.replace("_", "").replace("-", "").isalnum() (isalnum is false of "")
username_alphanumeric(v) ==
    LET stripped == SelectSeq(v, LAMBDA c : c \notin {"_", "-"})
    IN  stripped # <<>> /\ \A i \in 1..Len(stripped) : stripped[i] \in AlnumChars

\* pydantic EmailStr on the characters of the model: one "@", a local part,
\* and a domain of two or more labels, none of them empty
EmailStr(v) ==
    \E at \in 2..(Len(v) - 1) :
        /\ v[at] = "@"
        /\ \A i \in 1..Len(v) : i # at => v[i] \in AlnumChars \cup {".", "_", "-"}
        /\ v[1] # "." /\ v[at - 1] # "." /\ v[at + 1] # "." /\ v[Len(v)] # "."
        /\ \E i \in (at + 1)..Len(v) : v[i] = "."
        /\ \A i \in 1..(Len(v) - 1) : ~(v[i] = "." /\ v[i + 1] = ".")

\* schemas.UserCreate: the errors of a request body, as <<field, type>>
UserCreateErrors(body) ==
    {e \in {<<"body.email", "value_error">>,
            <<"body.username", "string_too_short">>,
            <<"body.username", "string_too_long">>,
            <<"body.username", "value_error">>,
            <<"body.password", "string_too_short">>} :
        \/ e = <<"body.email", "value_error">> /\ ~EmailStr(body.email)
        \/ e = <<"body.username", "string_too_short">> /\ Len(body.username) < 3
        \/ e = <<"body.username", "string_too_long">> /\ Len(body.username) > 100
        \/ /\ e = <<"body.username", "value_error">>
           /\ Len(body.username) \in 3..100
           /\ ~username_alphanumeric(body.username)
        \/ e = <<"body.password", "string_too_short">> /\ Len(body.password) < 8}

\* schemas.UserCreate without min_length on password
UserCreate_any_password(body) ==
    UserCreateErrors(body) \ {<<"body.password", "string_too_short">>} = {}

\* schemas.UserCreate: the body passes the validation
UserCreate(body) == UserCreateErrors(body) = {}

\* the UserCreate of a valid body: <<email, username>>, the username as the
\* validator returns it (v.lower())
UserData(body) == <<Text(body.email), Text(LowerChars(body.username))>>

\* schemas.AddXPRequest without the constraint on amount
AddXPRequest_any(amount) == TRUE

\* schemas.AddXPRequest: amount: int = Field(ge=0)
AddXPRequest(amount) == amount >= 0

\* schemas.UserProfileUpdate: xp ge=0, level ge=1, for the fields that are set
UserProfileUpdate(body) ==
    /\ "xp" \in DOMAIN body => body.xp >= 0
    /\ "level" \in DOMAIN body => body.level >= 1

\* add_xp that also raises the level once xp reaches get_next_level_xp(level)
add_xp_level_up(prof, user_id, amount) ==
    [prof EXCEPT ![user_id] =
        [@ EXCEPT !.xp = @ + amount,
                  !.level = IF prof[user_id].xp + amount >= get_next_level_xp(@)
                            THEN @ + 1 ELSE @]]

\* add_xp on an existing profile: profile.xp += amount
add_xp(prof, user_id, amount) == [prof EXCEPT ![user_id].xp = @ + amount]

\* update_profile on an existing profile: setattr for every field that is set
update_profile(prof, user_id, update_data) ==
    [prof EXCEPT ![user_id] = ApplyPatch(@, update_data)]

\* get_stats with current_level_xp taken at level instead of level - 1
get_stats_current_at_level(prof, tbl, user_id) ==
    LET profile == prof[user_id]
        projs   == get_projects_by_user(tbl, user_id)
    IN  [xp                 |-> profile.xp,
         level              |-> profile.level,
         completed_projects |-> Cardinality({p \in projs : tbl[p].status = DONE}),
         total_projects     |-> Cardinality(projs),
         rank_title         |-> get_rank_for_xp(profile.xp).title,
         next_level_xp      |-> get_next_level_xp(profile.level),
         current_level_xp   |-> IF profile.level > 1
                                THEN get_next_level_xp(profile.level) ELSE 0]

\* get_stats on an existing profile: the UserStats it returns
get_stats(prof, tbl, user_id) ==
    LET profile == prof[user_id]
        projs   == get_projects_by_user(tbl, user_id)
    IN  [xp                 |-> profile.xp,
         level              |-> profile.level,
         completed_projects |-> Cardinality({p \in projs : tbl[p].status = DONE}),
         total_projects     |-> Cardinality(projs),
         rank_title         |-> get_rank_for_xp(profile.xp).title,
         next_level_xp      |-> get_next_level_xp(profile.level),
         current_level_xp   |-> IF profile.level > 1
                                THEN get_next_level_xp(profile.level - 1) ELSE 0]

-----------------------------------------------------------------------------
(* Requests *)

\* bodies of POST /projects: the schema's fields and fields it does not have
CreateBodies ==
    [id : CreateIds, dependencies : DepChoices, status : {DONE}, checklist : {<<"t1">>}]

\* bodies of PUT /projects/{id}: the fields that are set (exclude_unset)
UpdateBodies ==
    {[status |-> s] : s \in ProjectStatus}
        \cup {[dependencies |-> <<UnknownId>>]}

\* the last request (op, the caller's user id, and as pid the project id,
\* the username of a registration or the amount of an add-XP request) and
\* its response (code, body)
Response(op, user, pid, code, body) ==
    [op |-> op, user |-> user, pid |-> pid, code |-> code, body |-> body]

\* HTTP status codes of the routes
HTTP_200_OK == 200
HTTP_201_CREATED == 201
HTTP_400_BAD_REQUEST == 400
HTTP_401_UNAUTHORIZED == 401
HTTP_404_NOT_FOUND == 404
HTTP_422_UNPROCESSABLE_ENTITY == 422
HTTP_500_INTERNAL_SERVER_ERROR == 500

-----------------------------------------------------------------------------
(* routes: one action per request *)

\* POST /auth/register (routes/auth.py register) for a valid user_data;
\* request is what `last` records of the request
register_as(user_data, request) ==
    LET uid == generate_id(DOMAIN users) IN
    IF get_user_by_email(users, user_data[1]) # {}
       \/ get_user_by_username(users, user_data[2]) # {}
    THEN /\ last' = Response("register", "", request, HTTP_400_BAD_REQUEST, {})
         /\ UNCHANGED <<users, profiles, projects, sessions>>
    ELSE IF SeedIds \cap DOMAIN projects # {}
    THEN \* the INSERT of a seed row hits the primary key: rollback of the request
         /\ last' = Response("register", "", request, HTTP_500_INTERNAL_SERVER_ERROR, {})
         /\ UNCHANGED <<users, profiles, projects, sessions>>
    ELSE /\ users' = Put(users, uid, NewUser(user_data))
         /\ profiles' = Put(profiles, uid, NewProfile)
         /\ projects' = seed_initial_projects(projects, uid)
         /\ last' = Response("register", uid, request, HTTP_201_CREATED, {})
         /\ UNCHANGED sessions

\* POST /auth/register, recorded under the username of the request
register(user_data) == register_as(user_data, user_data[2])

\* POST /projects (routes/projects.py create_project)
route_create_project(user_id, body) ==
    LET project_data == ProjectCreate(body) IN
    \* the uuids of the model are used up: no further generated id
    /\ project_data.id = NoId => CustomIds \ DOMAIN projects # {}
    /\ LET project_id == ProjectIdFor(projects, project_data) IN
       IF project_id \in DOMAIN projects
       THEN \* the INSERT hits the primary key: rollback of the request
            /\ last' = Response("create", user_id, project_id,
                                HTTP_500_INTERNAL_SERVER_ERROR, {})
            /\ UNCHANGED <<users, profiles, projects, sessions>>
       ELSE /\ projects' = create_project(projects, user_id, project_data)
            /\ last' = Response("create", user_id, project_id, HTTP_201_CREATED,
                                {projects'[project_id]})
            /\ UNCHANGED <<users, profiles, sessions>>

\* PUT /projects/{project_id} (routes/projects.py update_project)
route_update_project(user_id, project_id, update_data) ==
    IF get_project_by_id(projects, project_id, user_id) = {}
    THEN /\ last' = Response("update", user_id, project_id, HTTP_404_NOT_FOUND, {})
         /\ UNCHANGED <<users, profiles, projects, sessions>>
    ELSE IF update_raises(projects, sessions, project_id, user_id, update_data)
    THEN \* the catch-all handler answers, get_db rolls back
         /\ last' = Response("update", user_id, project_id,
                             HTTP_500_INTERNAL_SERVER_ERROR, {})
         /\ UNCHANGED <<users, profiles, projects, sessions>>
    ELSE /\ projects' = update_project(projects, sessions, project_id, user_id, update_data)
         /\ last' = Response("update", user_id, project_id, HTTP_200_OK,
                             {projects'[project_id]})
         /\ UNCHANGED <<users, profiles, sessions>>

\* DELETE /projects/{project_id} (routes/projects.py delete_project)
route_delete_project(user_id, project_id) ==
    IF get_project_by_id(projects, project_id, user_id) = {}
    THEN /\ last' = Response("delete", user_id, project_id, HTTP_404_NOT_FOUND, {})
         /\ UNCHANGED <<users, profiles, projects, sessions>>
    ELSE /\ projects' = delete_project(projects, project_id, user_id)
         /\ sessions' = cascade_delete(sessions, project_id)
         /\ last' = Response("delete", user_id, project_id, HTTP_200_OK, {})
         /\ UNCHANGED <<users, profiles>>

\* POST /projects/{project_id}/sessions (routes/projects.py add_session)
route_add_session(user_id, project_id, duration_seconds) ==
    IF get_project_by_id(projects, project_id, user_id) = {}
    THEN /\ last' = Response("add_session", user_id, project_id, HTTP_404_NOT_FOUND, {})
         /\ UNCHANGED <<users, profiles, projects, sessions>>
    ELSE /\ Cardinality(DOMAIN sessions) < MaxSessions
         /\ LET sid == generate_session_id(sessions)
                session == [project_id |-> project_id, duration_seconds |-> duration_seconds]
                total_seconds == SumDurations(sessions, SessionsOf(sessions, project_id))
                                     + duration_seconds
            IN  /\ sessions' = Put(sessions, sid, session)
                /\ projects' = [projects EXCEPT
                                   ![project_id].time_spent_hours = RoundHours(total_seconds)]
                /\ last' = Response("add_session", user_id, project_id,
                                    HTTP_201_CREATED, {session})
         /\ UNCHANGED <<users, profiles>>

\* GET /projects/{project_id} (routes/projects.py get_project)
route_get_project(user_id, project_id) ==
    /\ last' = IF get_project_by_id(projects, project_id, user_id) = {}
               THEN Response("get", user_id, project_id, HTTP_404_NOT_FOUND, {})
               ELSE Response("get", user_id, project_id, HTTP_200_OK, {projects[project_id]})
    /\ UNCHANGED <<users, profiles, projects, sessions>>

\* get_sessions_by_project: [] for a project the caller does not own
get_sessions_by_project(tbl, ss, project_id, user_id) ==
    IF get_project_by_id(tbl, project_id, user_id) = {}
    THEN {}
    ELSE {ss[s] : s \in SessionsOf(ss, project_id)}

\* GET /projects/{project_id}/sessions (routes/projects.py get_sessions)
route_get_sessions(user_id, project_id) ==
    /\ last' = Response("get_sessions", user_id, project_id, HTTP_200_OK,
                        get_sessions_by_project(projects, sessions, project_id, user_id))
    /\ UNCHANGED <<users, profiles, projects, sessions>>

\* the largest xp a profile of the model holds (the xp column is an Integer)
MaxXp == 3000

\* the content of the validation handler's answer: the field and the error type
ValidationError(field, type) == {[field |-> field, type |-> type]}

\* POST /profile/xp (routes/profile.py add_xp)
route_add_xp(user_id, amount) ==
    IF ~AddXPRequest(amount)
    THEN \* RequestValidationError, before the route's body runs
         /\ last' = Response("add_xp", user_id, amount, HTTP_422_UNPROCESSABLE_ENTITY,
                             ValidationError("body.amount", "greater_than_equal"))
         /\ UNCHANGED <<users, profiles, projects, sessions>>
    ELSE IF user_id \notin DOMAIN profiles
    THEN /\ last' = Response("add_xp", user_id, amount, HTTP_404_NOT_FOUND, {})
         /\ UNCHANGED <<users, profiles, projects, sessions>>
    ELSE /\ profiles[user_id].xp + amount <= MaxXp
         /\ profiles' = add_xp(profiles, user_id, amount)
         /\ last' = Response("add_xp", user_id, amount, HTTP_200_OK, {profiles'[user_id]})
         /\ UNCHANGED <<users, projects, sessions>>

\* PUT /profile (routes/profile.py update_profile)
route_update_profile(user_id, body) ==
    IF ~UserProfileUpdate(body)
    THEN /\ last' = Response("update_profile", user_id, "", HTTP_422_UNPROCESSABLE_ENTITY,
                             ValidationError("body", "greater_than_equal"))
         /\ UNCHANGED <<users, profiles, projects, sessions>>
    ELSE IF user_id \notin DOMAIN profiles
    THEN /\ last' = Response("update_profile", user_id, "", HTTP_404_NOT_FOUND, {})
         /\ UNCHANGED <<users, profiles, projects, sessions>>
    ELSE /\ profiles' = update_profile(profiles, user_id, body)
         /\ last' = Response("update_profile", user_id, "", HTTP_200_OK, {profiles'[user_id]})
         /\ UNCHANGED <<users, projects, sessions>>

\* GET /profile/stats (routes/profile.py get_stats)
route_get_stats(user_id) ==
    /\ last' = IF user_id \notin DOMAIN profiles
               THEN Response("stats", user_id, "", HTTP_404_NOT_FOUND, {})
               ELSE Response("stats", user_id, "", HTTP_200_OK,
                             {get_stats(profiles, projects, user_id)})
    /\ UNCHANGED <<users, profiles, projects, sessions>>

\* UserProfile.is_public: models.py maps no such column and no schema sets
\* it, so that every profile holds the default of the column, false
is_public(prof, user_id) == FALSE

\* the routers of the app, with the users router added
IncludedRouters_with_users == {"auth", "projects", "profile", "users"}

\* main.py app.include_router: the routers the app serves
IncludedRouters == {"auth", "projects", "profile"}

\* the content of an error answer: its detail
Detail(text) == {[detail |-> text]}

\* GET /users/{username}/public (routes/users.py get_public_profile): the
\* app does not include the users router, so that no route matches and the
\* app answers 404; were it included, the handler would call
\* crud.get_public_profile_by_username, which crud.py does not define, and
\* the AttributeError would be answered by the catch-all handler
route_get_public_profile(username) ==
    /\ last' = IF "users" \notin IncludedRouters
               THEN Response("public_profile", "", username, HTTP_404_NOT_FOUND,
                             Detail("Not Found"))
               ELSE Response("public_profile", "", username,
                             HTTP_500_INTERNAL_SERVER_ERROR, Detail("Internal server error"))
    /\ UNCHANGED <<users, profiles, projects, sessions>>

\* POST /auth/register with the validation of the body (schemas.UserCreate)
\* that runs before the route
route_register(body) ==
    IF ~UserCreate(body)
    THEN /\ last' = Response("register", "", body, HTTP_422_UNPROCESSABLE_ENTITY,
                             {[field |-> e[1], type |-> e[2]] : e \in UserCreateErrors(body)})
         /\ UNCHANGED <<users, profiles, projects, sessions>>
    ELSE register_as(UserData(body), body)

\* settings.SECRET_KEY: the key the tokens of the service are signed with
SECRET_KEY == "secret"

\* decode_token that trusts any signature
decode_token_unverified(token) == IF token.expired THEN {} ELSE {token.payload}

\* core/security.py decode_token: the payload of a token signed with
\* SECRET_KEY that has not expired; nothing (None) on a JWTError
decode_token(token) ==
    IF token.key = SECRET_KEY /\ ~token.expired THEN {token.payload} ELSE {}

\* get_token_subject: payload.get("sub") of a payload that is not empty
get_token_subject(token) ==
    {payload.sub : payload \in {q \in decode_token(token) :
                                    DOMAIN q # {} /\ "sub" \in DOMAIN q}}

\* get_current_user_id: the user id of the request, or nothing where it
\* raises credentials_exception (no token, or a token without a subject);
\* token is the Authorization header: no token or one token
get_current_user_id(token) ==
    IF token = {} THEN {}
    ELSE UNION {get_token_subject(tk) : tk \in token}

\* credentials_exception, raised before get_db opens a session
credentials_exception(op, pid) ==
    /\ last' = Response(op, "", pid, HTTP_401_UNAUTHORIZED,
                        Detail("Could not validate credentials"))
    /\ UNCHANGED <<users, profiles, projects, sessions>>

\* GET /projects (routes/projects.py get_projects)
route_get_projects(user_id) ==
    /\ last' = Response("list", user_id, "", HTTP_200_OK,
                        {[id |-> p, project |-> projects[p]] :
                             p \in get_projects_by_user(projects, user_id)})
    /\ UNCHANGED <<users, profiles, projects, sessions>>

\* GET /profile (routes/profile.py get_profile)
route_get_profile(user_id) ==
    /\ last' = IF user_id \notin DOMAIN profiles
               THEN Response("get_profile", user_id, "", HTTP_404_NOT_FOUND, {})
               ELSE Response("get_profile", user_id, "", HTTP_200_OK, {profiles[user_id]})
    /\ UNCHANGED <<users, profiles, projects, sessions>>

\* POST /auth/register, up to the two checks: the request is answered 400,
\* or goes on as request t to create_user and seed_initial_projects
register_begin(t, user_data) ==
    IF get_user_by_email(users, user_data[1]) # {}
       \/ get_user_by_username(users, user_data[2]) # {}
    THEN /\ last' = Response("register", "", user_data[2], HTTP_400_BAD_REQUEST, {})
         /\ UNCHANGED <<users, profiles, projects, sessions, inflight>>
    ELSE /\ inflight' = Put(inflight, t, [op |-> "register", user_data |-> user_data])
         /\ UNCHANGED <<users, profiles, projects, sessions, last>>

\* POST /auth/register, from create_user to the end of get_db: the INSERTs
\* of request t meet the rows committed by then, and the request commits
\* or, on an IntegrityError, rolls back and is answered 500
register_commit(t) ==
    LET user_data == inflight[t].user_data
        uid       == generate_id(DOMAIN users)
        committed == [users |-> users, profiles |-> profiles, projects |-> projects]
        raised    == UniqueViolation(users, NewUser(user_data)) \/ SeedKeyViolation(projects)
        db        == get_db(committed, register_flushed(committed, uid, user_data), raised)
    IN  /\ users' = db.users
        /\ profiles' = db.profiles
        /\ projects' = db.projects
        /\ inflight' = Drop(inflight, {t})
        /\ last' = IF raised
                   THEN Response("register", "", user_data[2],
                                 HTTP_500_INTERNAL_SERVER_ERROR, {})
                   ELSE Response("register", uid, user_data[2], HTTP_201_CREATED, {})
        /\ UNCHANGED sessions

\* PUT /projects/{project_id}, up to the end of crud.update_project: the
\* request is answered 404, or goes on as request t, which has read the
\* projects of the caller and holds the rows update_project and the
\* resolver have set
update_begin(t, user_id, project_id, update_data) ==
    IF get_project_by_id(projects, project_id, user_id) = {}
    THEN /\ last' = Response("update", user_id, project_id, HTTP_404_NOT_FOUND, {})
         /\ UNCHANGED <<users, profiles, projects, sessions, inflight>>
    ELSE /\ inflight' = Put(inflight, t,
                [op |-> "update", user |-> user_id, pid |-> project_id, read |-> projects,
                 flushed |-> update_project(projects, sessions, project_id, user_id,
                                            update_data)])
         /\ UNCHANGED <<users, profiles, projects, sessions, last>>

\* POST /projects, up to the end of crud.create_project: the INSERT hits a
\* committed row (500), or the request goes on as request t
create_begin(t, user_id, body) ==
    LET project_data == ProjectCreate(body)
        project_id   == ProjectIdFor(projects, project_data)
    IN  IF project_id \in DOMAIN projects
        THEN /\ last' = Response("create", user_id, project_id,
                                 HTTP_500_INTERNAL_SERVER_ERROR, {})
             /\ UNCHANGED <<users, profiles, projects, sessions, inflight>>
        ELSE /\ inflight' = Put(inflight, t,
                    [op |-> "create", user |-> user_id, pid |-> project_id,
                     read |-> projects,
                     flushed |-> create_project(projects, user_id, project_data)])
             /\ UNCHANGED <<users, profiles, projects, sessions, last>>

\* the end of get_db for request t, a create or an update: its rows are
\* written to the table as committed by now, or the request rolls back
project_commit(t) ==
    LET txn    == inflight[t]
        raised == commit_raises(projects, txn.read, txn.flushed)
        ok     == IF txn.op = "create" THEN HTTP_201_CREATED ELSE HTTP_200_OK
    IN  /\ projects' = get_db(projects,
                              commit_projects(projects, txn.read, txn.flushed), raised)
        /\ inflight' = Drop(inflight, {t})
        /\ last' = IF raised
                   THEN Response(txn.op, txn.user, txn.pid,
                                 HTTP_500_INTERNAL_SERVER_ERROR, {})
                   ELSE Response(txn.op, txn.user, txn.pid, ok, {txn.flushed[txn.pid]})
        /\ UNCHANGED <<users, profiles, sessions>>

\* POST /profile/xp, up to the end of crud.add_xp: the request is answered
\* 422 or 404, or goes on as request t, which has read the caller's profile
\* and holds it with xp raised by amount
add_xp_begin(t, user_id, amount) ==
    IF ~AddXPRequest(amount)
    THEN /\ last' = Response("add_xp", user_id, amount, HTTP_422_UNPROCESSABLE_ENTITY,
                             ValidationError("body.amount", "greater_than_equal"))
         /\ UNCHANGED <<users, profiles, projects, sessions, inflight>>
    ELSE IF user_id \notin DOMAIN profiles
    THEN /\ last' = Response("add_xp", user_id, amount, HTTP_404_NOT_FOUND, {})
         /\ UNCHANGED <<users, profiles, projects, sessions, inflight>>
    ELSE /\ profiles[user_id].xp + amount <= MaxXp
         /\ inflight' = Put(inflight, t,
                [op |-> "add_xp", user |-> user_id, amount |-> amount,
                 read |-> profiles, flushed |-> add_xp(profiles, user_id, amount)])
         /\ UNCHANGED <<users, profiles, projects, sessions, last>>

\* the end of get_db for the add-XP request t: its UPDATE of the profile is
\* written to the table as committed by now
add_xp_commit(t) ==
    LET txn == inflight[t]
    IN  /\ profiles' = get_db(profiles,
                              commit_profiles(profiles, txn.read, txn.flushed), FALSE)
        /\ inflight' = Drop(inflight, {t})
        /\ last' = Response("add_xp", txn.user, txn.amount, HTTP_200_OK,
                            {txn.flushed[txn.user]})
        /\ UNCHANGED <<users, projects, sessions>>

\* POST /projects/{project_id}/sessions, up to the end of
\* crud.add_session_to_project: the request is answered 404, or goes on as
\* request t, which has read the project with its sessions (selectinload)
\* and holds the new session and the hours it computed from those it read
add_session_begin(t, user_id, project_id, duration_seconds) ==
    IF get_project_by_id(projects, project_id, user_id) = {}
    THEN /\ last' = Response("add_session", user_id, project_id, HTTP_404_NOT_FOUND, {})
         /\ UNCHANGED <<users, profiles, projects, sessions, inflight>>
    ELSE LET session == [project_id |-> project_id, duration_seconds |-> duration_seconds]
             total_seconds == SumDurations(sessions, SessionsOf(sessions, project_id))
                                  + duration_seconds
         IN  /\ inflight' = Put(inflight, t,
                    [op |-> "add_session", user |-> user_id, pid |-> project_id,
                     session |-> session, read |-> projects,
                     flushed |-> [projects EXCEPT
                         ![project_id].time_spent_hours = RoundHours(total_seconds)]])
             /\ UNCHANGED <<users, profiles, projects, sessions, last>>

\* the end of get_db for the add-session request t: the INSERT of its
\* session and the UPDATE of the hours are committed
add_session_commit(t) ==
    LET txn == inflight[t]
    IN  /\ sessions' = Put(sessions, generate_session_id(sessions), txn.session)
        /\ projects' = get_db(projects,
                              commit_projects(projects, txn.read, txn.flushed), FALSE)
        /\ inflight' = Drop(inflight, {t})
        /\ last' = Response("add_session", txn.user, txn.pid, HTTP_201_CREATED,
                            {txn.session})
        /\ UNCHANGED <<users, profiles>>

-----------------------------------------------------------------------------
(* The service from an empty database *)

EmptyTable == [k \in {} |-> {}]

Init ==
    /\ users = EmptyTable
    /\ profiles = EmptyTable
    /\ projects = EmptyTable
    /\ sessions = EmptyTable
    /\ inflight = EmptyTable
    /\ last = Response("start", "", "", HTTP_200_OK, {})

\* get_current_user_id: the requests below carry the token of a registered user
Register ==
    \E user_data \in RegInputs :
        register(user_data) /\ UNCHANGED inflight
CreateProject ==
    \E u \in DOMAIN users, body \in CreateBodies :
        route_create_project(u, body) /\ UNCHANGED inflight
UpdateProject ==
    \E u \in DOMAIN users, pid \in UpdateIds, body \in UpdateBodies :
        route_update_project(u, pid, body) /\ UNCHANGED inflight
DeleteProject ==
    \E u \in DOMAIN users, pid \in DeleteIds :
        route_delete_project(u, pid) /\ UNCHANGED inflight
AddSession ==
    \E u \in DOMAIN users, pid \in ReadIds, d \in Durations :
        route_add_session(u, pid, d) /\ UNCHANGED inflight
GetProject ==
    \E u \in DOMAIN users, pid \in ReadIds :
        route_get_project(u, pid) /\ UNCHANGED inflight
GetSessions ==
    \E u \in DOMAIN users, pid \in ReadIds :
        route_get_sessions(u, pid) /\ UNCHANGED inflight

Next ==
    \/ Register
    \/ CreateProject
    \/ UpdateProject
    \/ DeleteProject
    \/ AddSession
    \/ GetProject
    \/ GetSessions

Spec == Init /\ [][Next]_vars

-----------------------------------------------------------------------------
(* Registrations and deletions alone.  A second account can register only  *)
(* once no seed id is left in the projects table: DrainDelete lets a user  *)
(* delete any project of the seed catalog.                                 *)

DrainDelete ==
    \E u \in DOMAIN users, pid \in SeedIds :
        route_delete_project(u, pid) /\ UNCHANGED inflight

NextDrain ==
    \/ Register
    \/ DrainDelete

SpecDrain == Init /\ [][NextDrain]_vars

-----------------------------------------------------------------------------
(* Two accounts on one projects table.  The start is the state SpecDrain   *)
(* reaches when alice has registered and has deleted the ten seed projects *)
(* (p1_1 last): from there bob can register, and both can work.            *)

InitShared ==
    /\ users = Put(EmptyTable, "u1", NewUser(<<"a@x.io", "alice">>))
    /\ profiles = Put(EmptyTable, "u1", NewProfile)
    /\ projects = EmptyTable
    /\ sessions = EmptyTable
    /\ inflight = EmptyTable
    /\ last = Response("delete", "u1", "p1_1", HTTP_200_OK, {})

SpecShared == InitShared /\ [][Next]_vars

\* the start of SpecShared, which SpecDrain reaches (in twelve requests)
DrainedState == InitShared

-----------------------------------------------------------------------------
(* Sessions and their projects: two accounts, bob with the seed catalog    *)
(* and alice without a project; both add sessions to p1_1 and to an id no  *)
(* project has, and both ask to delete p1_1 and p1_2.                      *)

AddSessionTo ==
    \E u \in DOMAIN users, pid \in UpdateIds \cup {UnknownId}, d \in Durations :
        route_add_session(u, pid, d) /\ UNCHANGED inflight

DeleteOwned ==
    \E u \in DOMAIN users, pid \in UpdateIds :
        route_delete_project(u, pid) /\ UNCHANGED inflight

NextOwnership ==
    \/ Register
    \/ AddSessionTo
    \/ DeleteOwned

SpecOwnership == InitShared /\ [][NextOwnership]_vars

-----------------------------------------------------------------------------
(* The resolver pass as a function: the start draws any projects table of  *)
(* two users over three ids (any statuses, dependency lists with unknown   *)
(* ids, foreign ids, self-references and cycles) and Resolve applies one   *)
(* pass for one user.                                                      *)

ResolveIds == {"p1_1", "p1_2", "custom_1"}

ResolveDeps == {<<>>, <<"p1_1">>, <<"p1_2">>, <<"custom_1", UnknownId>>}

ResolveRows ==
    [user_id : {"u1", "u2"}, status : ProjectStatus, dependencies : ResolveDeps,
     checklist : {<<>>}, resources : {<<>>}, time_spent_hours : {0}]

InitResolve ==
    /\ users = Put(Put(EmptyTable, "u1", NewUser(<<"a@x.io", "alice">>)),
                   "u2", NewUser(<<"b@x.io", "bob">>))
    /\ profiles = Put(Put(EmptyTable, "u1", NewProfile), "u2", NewProfile)
    /\ projects \in [ResolveIds -> ResolveRows]
    /\ sessions = EmptyTable
    /\ inflight = EmptyTable
    /\ last = Response("start", "", "", HTTP_200_OK, {})

Resolve ==
    \E u \in DOMAIN users :
        /\ projects' = check_project_dependencies(projects, u)
        /\ last' = Response("resolve", u, "", HTTP_200_OK, {})
        /\ UNCHANGED <<users, profiles, sessions, inflight>>

NextResolve == Resolve

SpecResolve == InitResolve /\ [][NextResolve]_vars

-----------------------------------------------------------------------------
(* Time tracking: one account, its sessions and the hours of its projects. *)
(* The add-session requests carry a negative duration, durations that sum  *)
(* to a half of a tenth of an hour (180 s), and one that is no multiple of *)
(* a tenth (200 s); the updates carry a time_spent_hours of the caller.    *)

\* ids the requests of the time tracking name
TimeIds == {"p1_1", "p1_2"}

\* durationSeconds of the add-session requests (schemas.WorkSessionBase: an int)
TimeDurations == {-3600, 180, 200, 1800, 3600}

\* bodies of PUT /projects/{id} that set timeSpentHours (7.0 hours)
TimeBodies == {[time_spent_hours |-> 70]}

AddSessionTime ==
    \E u \in DOMAIN users, pid \in TimeIds, d \in TimeDurations :
        route_add_session(u, pid, d) /\ UNCHANGED inflight
UpdateTime ==
    \E u \in DOMAIN users, pid \in TimeIds, body \in TimeBodies :
        route_update_project(u, pid, body) /\ UNCHANGED inflight
DeleteTime ==
    \E u \in DOMAIN users :
        route_delete_project(u, "p1_2") /\ UNCHANGED inflight

NextTime ==
    \/ Register
    \/ AddSessionTime
    \/ UpdateTime
    \/ DeleteTime

SpecTime == Init /\ [][NextTime]_vars

-----------------------------------------------------------------------------
(* The rank and level formulas as functions: the start draws an xp or a    *)
(* level, RankFor and NextLevelXp apply get_rank_for_xp and                *)
(* get_next_level_xp to it and answer with the input and the result.       *)

\* the largest xp drawn (the last threshold of RANKS is 30000)
MaxXpInput == 30001

\* the least xp drawn, below every threshold of RANKS
MinXpInput == -1

\* the largest level drawn
MaxLevelInput == 30

\* the inputs: an xp with level 1, or a level with xp 0
FormulaInputs ==
    [xp : MinXpInput..MaxXpInput, level : {1}] \cup [xp : {0}, level : 0..MaxLevelInput]

InitFormulas ==
    /\ users = EmptyTable
    /\ profiles = EmptyTable
    /\ projects = EmptyTable
    /\ sessions = EmptyTable
    /\ inflight = EmptyTable
    /\ \E input \in FormulaInputs : last = Response("input", "", "", HTTP_200_OK, {input})

RankFor ==
    /\ last.op = "input"
    /\ last' = Response("rank", "", "", HTTP_200_OK,
                        {[xp |-> input.xp, rank |-> get_rank_for_xp(input.xp)] :
                             input \in last.body})
    /\ UNCHANGED <<users, profiles, projects, sessions, inflight>>

NextLevelXp ==
    /\ last.op = "input"
    /\ last' = Response("next_level_xp", "", "", HTTP_200_OK,
                        {[level |-> input.level, xp |-> get_next_level_xp(input.level)] :
                             input \in last.body})
    /\ UNCHANGED <<users, profiles, projects, sessions, inflight>>

NextFormulas ==
    \/ RankFor
    \/ NextLevelXp

-----------------------------------------------------------------------------
(* Registrations that overlap.  Each registration is two steps: its checks *)
(* (BeginRegister) and its INSERTs and commit (CommitRegister); other      *)
(* requests run in between.  The clients delete their seed projects from   *)
(* the end of the catalog, which lets a second account register.           *)

\* at most this many requests are in flight
MaxInflight == 2

\* registration requests: <<email, username>>, two of them alice's up to case
RaceInputs == {<<"a@x.io", "alice">>, <<"A@x.io", "bob">>, <<"b@x.io", "Alice">>}

\* the seed project of user u that comes last in the catalog
LastSeed(tbl, u) ==
    INITIAL_DATASET[CHOOSE i \in 1..Len(INITIAL_DATASET) :
        /\ INITIAL_DATASET[i].id \in get_projects_by_user(tbl, u)
        /\ \A j \in (i + 1)..Len(INITIAL_DATASET) :
               INITIAL_DATASET[j].id \notin get_projects_by_user(tbl, u)].id

BeginRegister ==
    \E t \in 1..MaxInflight, user_data \in RaceInputs :
        /\ t \notin DOMAIN inflight
        \* the user ids of the model: one for every registration that may commit
        /\ Cardinality(DOMAIN users) + Cardinality(DOMAIN inflight) < Len(UserIds)
        /\ register_begin(t, user_data)

CommitRegister ==
    \E t \in DOMAIN inflight :
        inflight[t].op = "register" /\ register_commit(t)

DrainInOrder ==
    \E u \in DOMAIN users :
        /\ get_projects_by_user(projects, u) \cap SeedIds # {}
        /\ route_delete_project(u, LastSeed(projects, u))
        /\ UNCHANGED inflight

NextRegister ==
    \/ BeginRegister
    \/ CommitRegister
    \/ DrainInOrder

SpecRegister == Init /\ [][NextRegister]_vars

-----------------------------------------------------------------------------
(* Creates and updates of one account that overlap: each is two steps, the *)
(* work of the route in its own session (BeginUpdate, BeginCreate) and the *)
(* commit (CommitProject).  The database is PostgreSQL at its default      *)
(* isolation level: a request reads what is committed when it reads.       *)

\* bodies of PUT /projects/p1_1: its status set to done and away from done
OverlapUpdates == {[status |-> DONE], [status |-> UNLOCKED]}

\* bodies of POST /projects: custom_1, which depends on p1_1
OverlapCreates == {body \in CreateBodies : body.id = "custom_1" /\ body.dependencies = <<"p1_1">>}

BeginUpdate ==
    \E t \in 1..MaxInflight, u \in DOMAIN users, body \in OverlapUpdates :
        t \notin DOMAIN inflight /\ update_begin(t, u, "p1_1", body)

BeginCreate ==
    \E t \in 1..MaxInflight, u \in DOMAIN users, body \in OverlapCreates :
        t \notin DOMAIN inflight /\ create_begin(t, u, body)

CommitProject ==
    \E t \in DOMAIN inflight :
        inflight[t].op \in {"create", "update"} /\ project_commit(t)

NextOverlap ==
    \/ Register
    \/ BeginUpdate
    \/ BeginCreate
    \/ CommitProject

SpecOverlap == Init /\ [][NextOverlap]_vars

-----------------------------------------------------------------------------
(* The profile: one account, its xp, level and badges, and the stats over  *)
(* its profile and its projects.                                           *)

\* amounts of the add-XP requests
XpAmounts == {-5, 0, 400, 1000}

\* bodies of PUT /profile: the fields that are set
ProfileBodies ==
    {[level |-> 2], [level |-> 3], [level |-> 0],
     [xp |-> 0, unlocked_badges |-> {"b_first_step"}]}

\* bodies of PUT /projects/p1_2 that change the number of done projects
StatsBodies == {[status |-> DONE], [status |-> IN_PROGRESS]}

AddXP ==
    \E u \in DOMAIN users, amount \in XpAmounts :
        route_add_xp(u, amount) /\ UNCHANGED inflight
UpdateProfile ==
    \E u \in DOMAIN users, body \in ProfileBodies :
        route_update_profile(u, body) /\ UNCHANGED inflight
GetStats ==
    \E u \in DOMAIN users :
        route_get_stats(u) /\ UNCHANGED inflight
UpdateStats ==
    \E u \in DOMAIN users, body \in StatsBodies :
        route_update_project(u, "p1_2", body) /\ UNCHANGED inflight
DeleteStats ==
    \E u \in DOMAIN users :
        route_delete_project(u, "p1_3") /\ UNCHANGED inflight

NextProfile ==
    \/ Register
    \/ AddXP
    \/ UpdateProfile
    \/ GetStats
    \/ UpdateStats
    \/ DeleteStats

SpecProfile == Init /\ [][NextProfile]_vars

SpecFormulas == InitFormulas /\ [][NextFormulas]_vars


-----------------------------------------------------------------------------
(* Requests with their credentials.  A request arrives with or without a   *)
(* token (Arrive) and is then answered: get_current_user_id runs first and *)
(* either raises or hands the user id to the route.                        *)

\* the tokens create_access_token has issued: one for every registered user
IssuedTokens(us) ==
    {[key |-> SECRET_KEY, expired |-> FALSE, payload |-> [sub |-> u, type |-> "access"]] :
         u \in DOMAIN us}

\* tokens the service does not accept: signed with another key, expired,
\* without a subject, and with an empty payload
OtherTokens ==
    {[key |-> "other", expired |-> FALSE, payload |-> [sub |-> "u1", type |-> "access"]],
     [key |-> SECRET_KEY, expired |-> TRUE, payload |-> [sub |-> "u1", type |-> "access"]],
     [key |-> SECRET_KEY, expired |-> FALSE, payload |-> [type |-> "access"]],
     [key |-> SECRET_KEY, expired |-> FALSE, payload |-> EmptyTable]}

\* the Authorization header of a request: no token, or one token
Credentials(us) == {{}} \cup {{tk} : tk \in IssuedTokens(us) \cup OtherTokens}

\* the requests: operation, project id and body
Operations ==
    {[op |-> "list",           pid |-> "",     body |-> EmptyTable],
     [op |-> "get",            pid |-> "p1_1", body |-> EmptyTable],
     [op |-> "create",         pid |-> "",
      body |-> [id |-> "custom_1", dependencies |-> <<"p1_1">>, status |-> DONE,
                checklist |-> <<"t1">>]],
     [op |-> "update",         pid |-> "p1_2", body |-> [status |-> DONE]],
     [op |-> "delete",         pid |-> "p1_3", body |-> EmptyTable],
     [op |-> "add_session",    pid |-> "p1_1", body |-> [duration_seconds |-> 1800]],
     [op |-> "get_sessions",   pid |-> "p1_1", body |-> EmptyTable],
     [op |-> "get_profile",    pid |-> "",     body |-> EmptyTable],
     [op |-> "update_profile", pid |-> "",     body |-> [level |-> 2]],
     [op |-> "add_xp",         pid |-> "",     body |-> [amount |-> 3000]],
     [op |-> "stats",          pid |-> "",     body |-> EmptyTable]}

Arrive ==
    \E request \in Operations, token \in Credentials(users) :
        /\ inflight = EmptyTable
        /\ inflight' = Put(inflight, 1,
               [op |-> request.op, pid |-> request.pid, body |-> request.body,
                token |-> token])
        /\ UNCHANGED <<users, profiles, projects, sessions, last>>

\* the answer to request t: Depends(get_current_user_id), then the route
Answer(t, op) ==
    /\ t \in DOMAIN inflight
    /\ inflight[t].op = op
    /\ inflight' = Drop(inflight, {t})

GetProjectsAs ==
    \E t \in DOMAIN inflight :
        /\ Answer(t, "list")
        /\ IF get_current_user_id(inflight[t].token) = {}
           THEN credentials_exception("list", inflight[t].pid)
           ELSE \E u \in get_current_user_id(inflight[t].token) : route_get_projects(u)
GetProjectAs ==
    \E t \in DOMAIN inflight :
        /\ Answer(t, "get")
        /\ IF get_current_user_id(inflight[t].token) = {}
           THEN credentials_exception("get", inflight[t].pid)
           ELSE \E u \in get_current_user_id(inflight[t].token) :
                    route_get_project(u, inflight[t].pid)
CreateProjectAs ==
    \E t \in DOMAIN inflight :
        /\ Answer(t, "create")
        /\ IF get_current_user_id(inflight[t].token) = {}
           THEN credentials_exception("create", inflight[t].pid)
           ELSE \E u \in get_current_user_id(inflight[t].token) :
                    route_create_project(u, inflight[t].body)
UpdateProjectAs ==
    \E t \in DOMAIN inflight :
        /\ Answer(t, "update")
        /\ IF get_current_user_id(inflight[t].token) = {}
           THEN credentials_exception("update", inflight[t].pid)
           ELSE \E u \in get_current_user_id(inflight[t].token) :
                    route_update_project(u, inflight[t].pid, inflight[t].body)
DeleteProjectAs ==
    \E t \in DOMAIN inflight :
        /\ Answer(t, "delete")
        /\ IF get_current_user_id(inflight[t].token) = {}
           THEN credentials_exception("delete", inflight[t].pid)
           ELSE \E u \in get_current_user_id(inflight[t].token) :
                    route_delete_project(u, inflight[t].pid)
AddSessionAs ==
    \E t \in DOMAIN inflight :
        /\ Answer(t, "add_session")
        /\ IF get_current_user_id(inflight[t].token) = {}
           THEN credentials_exception("add_session", inflight[t].pid)
           ELSE \E u \in get_current_user_id(inflight[t].token) :
                    route_add_session(u, inflight[t].pid, inflight[t].body.duration_seconds)
GetSessionsAs ==
    \E t \in DOMAIN inflight :
        /\ Answer(t, "get_sessions")
        /\ IF get_current_user_id(inflight[t].token) = {}
           THEN credentials_exception("get_sessions", inflight[t].pid)
           ELSE \E u \in get_current_user_id(inflight[t].token) :
                    route_get_sessions(u, inflight[t].pid)
GetProfileAs ==
    \E t \in DOMAIN inflight :
        /\ Answer(t, "get_profile")
        /\ IF get_current_user_id(inflight[t].token) = {}
           THEN credentials_exception("get_profile", inflight[t].pid)
           ELSE \E u \in get_current_user_id(inflight[t].token) : route_get_profile(u)
UpdateProfileAs ==
    \E t \in DOMAIN inflight :
        /\ Answer(t, "update_profile")
        /\ IF get_current_user_id(inflight[t].token) = {}
           THEN credentials_exception("update_profile", inflight[t].pid)
           ELSE \E u \in get_current_user_id(inflight[t].token) :
                    route_update_profile(u, inflight[t].body)
AddXPAs ==
    \E t \in DOMAIN inflight :
        /\ Answer(t, "add_xp")
        /\ IF get_current_user_id(inflight[t].token) = {}
           THEN credentials_exception("add_xp", inflight[t].pid)
           ELSE \E u \in get_current_user_id(inflight[t].token) :
                    route_add_xp(u, inflight[t].body.amount)
GetStatsAs ==
    \E t \in DOMAIN inflight :
        /\ Answer(t, "stats")
        /\ IF get_current_user_id(inflight[t].token) = {}
           THEN credentials_exception("stats", inflight[t].pid)
           ELSE \E u \in get_current_user_id(inflight[t].token) : route_get_stats(u)

NextAuth ==
    \/ Register
    \/ Arrive
    \/ GetProjectsAs
    \/ GetProjectAs
    \/ CreateProjectAs
    \/ UpdateProjectAs
    \/ DeleteProjectAs
    \/ AddSessionAs
    \/ GetSessionsAs
    \/ GetProfileAs
    \/ UpdateProfileAs
    \/ AddXPAs
    \/ GetStatsAs

SpecAuth == Init /\ [][NextAuth]_vars

-----------------------------------------------------------------------------
(* Updates with every kind of patch schemas.ProjectUpdate accepts: fields  *)
(* that are set, fields that are left out, and fields that are set to      *)
(* null (every field of the schema is Optional).                           *)

\* bodies of PUT /projects/{id}: the fields that are set (exclude_unset)
PatchBodies ==
    {[status |-> s] : s \in ProjectStatus}
        \cup {[dependencies |-> <<>>],
              [checklist |-> <<"t1">>, resources |-> <<"r1">>],
              [time_spent_hours |-> 70, status |-> IN_PROGRESS]}

\* bodies that set a field to null
NullBodies ==
    {[dependencies |-> None], [status |-> None], [status |-> DONE, dependencies |-> None]}

\* an update arrives with the token of a registered user
ArrivePatch ==
    \E token \in {{tk} : tk \in IssuedTokens(users)}, pid \in UpdateIds, body \in PatchBodies :
        /\ inflight = EmptyTable
        /\ inflight' = Put(inflight, 1,
               [op |-> "update", pid |-> pid, body |-> body, token |-> token])
        /\ UNCHANGED <<users, profiles, projects, sessions, last>>

ArriveNull ==
    \E token \in {{tk} : tk \in IssuedTokens(users)}, pid \in UpdateIds, body \in NullBodies :
        /\ inflight = EmptyTable
        /\ inflight' = Put(inflight, 1,
               [op |-> "update", pid |-> pid, body |-> body, token |-> token])
        /\ UNCHANGED <<users, profiles, projects, sessions, last>>

AddSessionPatch ==
    \E u \in DOMAIN users :
        route_add_session(u, "p1_2", 1800) /\ UNCHANGED inflight

NextPatch ==
    \/ Register
    \/ ArrivePatch
    \/ ArriveNull
    \/ UpdateProjectAs
    \/ AddSessionPatch

SpecPatch == Init /\ [][NextPatch]_vars

-----------------------------------------------------------------------------
(* Registrations with their request bodies: emails, usernames and          *)
(* passwords as sequences of characters, valid ones and ones that break    *)
(* each rule of schemas.UserCreate.                                        *)

\* emails: a@x.io, b@x.io, and malformed ones: ax.io, a@x, a@.io
RawEmails ==
    {<<"a", "@", "x", ".", "i", "o">>, <<"b", "@", "x", ".", "i", "o">>,
     <<"a", "x", ".", "i", "o">>, <<"a", "@", "x">>, <<"a", "@", ".", "i", "o">>}

\* usernames: alice, Alice, a_b, and al (short), a!b and _-_ (not alphanumeric)
RawUsernames ==
    {<<"a", "l", "i", "c", "e">>, <<"A", "l", "i", "c", "e">>, <<"a", "_", "b">>,
     <<"a", "l">>, <<"a", "!", "b">>, <<"_", "-", "_">>}

\* request bodies; passwords: password (8 characters), passwor (7), short (5)
RawBodies ==
    [email : RawEmails, username : RawUsernames,
     password : {<<"p", "a", "s", "s", "w", "o", "r", "d">>,
                 <<"p", "a", "s", "s", "w", "o", "r">>, <<"s", "h", "o", "r", "t">>}]

RegisterBody ==
    \E body \in RawBodies :
        route_register(body) /\ UNCHANGED inflight

NextValidation == RegisterBody

SpecValidation == Init /\ [][NextValidation]_vars

-----------------------------------------------------------------------------
(* The public profile: accounts with their xp, level and badges, and       *)
(* lookups of their usernames and of a username nobody has.                *)

GetPublicProfile ==
    \E username \in {"alice", "bob", "carol"} :
        route_get_public_profile(username) /\ UNCHANGED inflight

NextPublic ==
    \/ Register
    \/ AddXP
    \/ UpdateProfile
    \/ GetPublicProfile

SpecPublic == Init /\ [][NextPublic]_vars

-----------------------------------------------------------------------------
(* Add-session requests of one account that overlap: each is two steps,    *)
(* the SELECT of the project and its sessions with the sum over them       *)
(* (BeginAddSession) and the INSERT and the UPDATE with the commit         *)
(* (CommitAddSession).                                                     *)

BeginAddSession ==
    \E t \in 1..MaxInflight, u \in DOMAIN users, pid \in TimeIds, d \in Durations :
        /\ t \notin DOMAIN inflight
        \* the sessions of the model: one for every request that may commit
        /\ Cardinality(DOMAIN sessions) + Cardinality(DOMAIN inflight) < MaxSessions
        /\ add_session_begin(t, u, pid, d)

CommitAddSession ==
    \E t \in DOMAIN inflight :
        inflight[t].op = "add_session" /\ add_session_commit(t)

NextSessions ==
    \/ Register
    \/ BeginAddSession
    \/ CommitAddSession

SpecSessions == Init /\ [][NextSessions]_vars

-----------------------------------------------------------------------------
(* Add-XP requests of one account that overlap: each is two steps, the     *)
(* SELECT of the profile with profile.xp += amount in the session          *)
(* (BeginAddXP) and the UPDATE with the commit (CommitAddXP).              *)

\* amounts of the overlapping add-XP requests
OverlapAmounts == {-5, 0, 400, 1000}

BeginAddXP ==
    \E t \in 1..MaxInflight, u \in DOMAIN users, amount \in OverlapAmounts :
        t \notin DOMAIN inflight /\ add_xp_begin(t, u, amount)

CommitAddXP ==
    \E t \in DOMAIN inflight :
        inflight[t].op = "add_xp" /\ add_xp_commit(t)

NextXp ==
    \/ Register
    \/ BeginAddXP
    \/ CommitAddXP

SpecXp == Init /\ [][NextXp]_vars


-----------------------------------------------------------------------------
(* Properties *)

\* the last request completed a create, an update or a delete
CompletedMutation ==
    /\ last.op \in {"create", "update", "delete"}
    /\ last.code \in {HTTP_200_OK, HTTP_201_CREATED}

\* every dependency of project p is a done project of the same user
DepsDone(tbl, p) ==
    \A d \in Range(tbl[p].dependencies) :
        /\ d \in DOMAIN tbl
        /\ tbl[d].user_id = tbl[p].user_id
        /\ tbl[d].status = DONE

\* the locked and unlocked projects of user u are unlocked iff their dependencies are done
StatusInvariant(tbl, u) ==
    \A p \in DOMAIN tbl :
        (tbl[p].user_id = u /\ tbl[p].status \in {LOCKED, UNLOCKED})
            => (tbl[p].status = UNLOCKED <=> DepsDone(tbl, p))

\* the projects of user u have the statuses and dependencies of the seed catalog
SeedState(tbl, u) ==
    /\ \A i \in 1..Len(INITIAL_DATASET) :
          /\ INITIAL_DATASET[i].id \in DOMAIN tbl
          /\ tbl[INITIAL_DATASET[i].id].user_id = u
          /\ tbl[INITIAL_DATASET[i].id].status = INITIAL_DATASET[i].status
          /\ tbl[INITIAL_DATASET[i].id].dependencies = INITIAL_DATASET[i].dependencies
    /\ \A p \in DOMAIN tbl : tbl[p].user_id = u => p \in SeedIds

\* C1: after a completed create, update or delete of a user, each locked or
\* unlocked project of that user is unlocked if and only if every id in its
\* dependencies is a done project of the same user; and a user's projects
\* keep that property in every later state (the only states without it are
\* those where the user's projects are still the seed catalog as seeded).
C1_StatusInvariant ==
    /\ CompletedMutation => StatusInvariant(projects, last.user)
    /\ \A u \in DOMAIN users : StatusInvariant(projects, u) \/ SeedState(projects, u)

\* C1 witness: an update completed and left p2_1 (seeded locked although its
\* only dependency p1_1 is done) unlocked, and p1_3 locked behind p1_2
C1_Witness ==
    /\ last.op = "update" /\ last.code = HTTP_200_OK
    /\ "p2_1" \in DOMAIN projects /\ projects["p2_1"].status = UNLOCKED
    /\ "p1_2" \in DOMAIN projects /\ projects["p1_2"].status = LOCKED
    /\ "p1_3" \in DOMAIN projects /\ projects["p1_3"].status = LOCKED

\* C2: the resolver pass is idempotent: the table a pass for user u leaves is
\* a fixed point of the pass for u, whatever the table it started from.
C2_Idempotent ==
    last.op = "resolve" => check_project_dependencies(projects, last.user) = projects

\* C2 witness: a pass ran on a dependency cycle (p1_1 needs p1_2, p1_2 needs
\* p1_1, same owner) and left both locked
C2_Witness ==
    /\ last.op = "resolve"
    /\ projects["p1_1"].user_id = last.user /\ projects["p1_2"].user_id = last.user
    /\ projects["p1_1"].dependencies = <<"p1_2">>
    /\ projects["p1_2"].dependencies = <<"p1_1">>
    /\ projects["p1_1"].status = LOCKED /\ projects["p1_2"].status = LOCKED

\* C3: no request changes the status of a done or in_progress project other
\* than an update of that very project: the resolver pass that ends every
\* create, update and delete leaves done and in_progress projects alone, also
\* when their dependencies are unmet.
C3_ResolverImmunity ==
    [][\A p \in DOMAIN projects :
          (/\ projects[p].status \in {DONE, IN_PROGRESS}
           /\ p \in DOMAIN projects'
           /\ ~(last'.op = "update" /\ last'.pid = p /\ last'.code = HTTP_200_OK))
              => projects'[p].status = projects[p].status]_vars

\* C3 witness: p1_2 depends on p1_1 and is in_progress, and an update of p1_1
\* has just completed that leaves p1_1 not done
C3_Witness ==
    /\ last.op = "update" /\ last.pid = "p1_1" /\ last.code = HTTP_200_OK
    /\ "p1_1" \in DOMAIN projects /\ projects["p1_1"].status # DONE
    /\ "p1_2" \in DOMAIN projects /\ projects["p1_2"].status = IN_PROGRESS
    /\ projects["p1_2"].dependencies = <<"p1_1">>

\* C4: a project with an empty dependencies list is never locked.
C4_EmptyDepsNeverLocked ==
    \A p \in DOMAIN projects :
        projects[p].dependencies = <<>> => projects[p].status # LOCKED

\* C4 witness: a create of a project without dependencies completed and the
\* project is unlocked
C4_Witness ==
    /\ last.op = "create" /\ last.code = HTTP_201_CREATED
    /\ last.pid \in DOMAIN projects
    /\ projects[last.pid].dependencies = <<>>
    /\ projects[last.pid].status = UNLOCKED

\* C5: a completed delete of project X by its owner removes X from the
\* dependencies of every other project of that user and from the table, so
\* that no project of the user references X afterwards; and in the same
\* request every locked project of the user that depended on X and whose
\* other dependencies were all done becomes unlocked.
C5_DeletePurges ==
    [][(last'.op = "delete" /\ last'.code = HTTP_200_OK) =>
          LET X == last'.pid
              u == last'.user
          IN  /\ X \notin DOMAIN projects'
              /\ \A p \in get_projects_by_user(projects', u) :
                     X \notin Range(projects'[p].dependencies)
              /\ \A p \in get_projects_by_user(projects, u) \ {X} :
                     /\ p \in DOMAIN projects'
                     /\ projects'[p].dependencies =
                            SelectSeq(projects[p].dependencies, LAMBDA d : d # X)
                     /\ (/\ projects[p].status = LOCKED
                         /\ X \in Range(projects[p].dependencies)
                         /\ \A d \in Range(projects[p].dependencies) \ {X} :
                                d \in completed_ids(projects, u))
                            => projects'[p].status = UNLOCKED]_vars

\* C5 witness: p1_2 has just been deleted, and p1_3, seeded with the single
\* dependency p1_2, has no dependency left and is unlocked
C5_Witness ==
    /\ last.op = "delete" /\ last.pid = "p1_2" /\ last.code = HTTP_200_OK
    /\ "p1_3" \in DOMAIN projects
    /\ projects["p1_3"].dependencies = <<>>
    /\ projects["p1_3"].status = UNLOCKED

\* C6: a resolver pass for user u leaves locked every locked or unlocked
\* project of u that has a dependency id outside u's own projects, be the id
\* unknown or the id of another user's project (done or not).
C6_ForeignDependencyUnmet ==
    [][last'.op = "resolve" =>
          \A p \in get_projects_by_user(projects, last'.user) :
              (/\ projects[p].status \in {LOCKED, UNLOCKED}
               /\ \E d \in Range(projects[p].dependencies) :
                      d \notin get_projects_by_user(projects, last'.user))
                  => projects'[p].status = LOCKED]_vars

\* C6 witness: after a pass for its owner a project is locked whose only
\* dependency is a done project of the other user
C6_Witness ==
    /\ last.op = "resolve"
    /\ \E p, q \in DOMAIN projects :
          /\ projects[p].user_id = last.user
          /\ projects[q].user_id # last.user
          /\ projects[q].status = DONE
          /\ projects[p].dependencies = <<q>>
          /\ projects[p].status = LOCKED

\* C7: a completed create leaves the new project owned by the caller, with
\* empty checklist and resources, and locked or unlocked: unlocked if all its
\* dependencies are done projects of the caller and locked otherwise (every
\* create request of the model carries status done and a checklist item).
C7_CreateDefaults ==
    (last.op = "create" /\ last.code = HTTP_201_CREATED) =>
        /\ last.pid \in DOMAIN projects
        /\ projects[last.pid].user_id = last.user
        /\ projects[last.pid].checklist = <<>>
        /\ projects[last.pid].resources = <<>>
        /\ projects[last.pid].status \in {LOCKED, UNLOCKED}
        /\ projects[last.pid].status = UNLOCKED <=> DepsDone(projects, last.pid)
        /\ last.body = {projects[last.pid]}

\* C7 witness: a project created with the dependency p1_1, which is done, is unlocked
C7_Witness ==
    /\ last.op = "create" /\ last.code = HTTP_201_CREATED
    /\ projects[last.pid].dependencies = <<"p1_1">>
    /\ projects[last.pid].status = UNLOCKED
    /\ projects["p1_1"].status = DONE

\* C8: a get, update, delete or add-session that names a project of another
\* user is answered 404 with no data and changes no project and no session.
C8_CrossUserIsolation ==
    [][(/\ last'.op \in {"get", "update", "delete", "add_session"}
        /\ last'.pid \in DOMAIN projects
        /\ projects[last'.pid].user_id # last'.user)
          => /\ last'.code = HTTP_404_NOT_FOUND
             /\ last'.body = {}
             /\ projects' = projects
             /\ sessions' = sessions]_vars

\* C8 witness: u1 asked to delete p1_1, which belongs to u2 and has a
\* session, and p1_1 and the session are still there
C8_Witness ==
    /\ last.op = "delete" /\ last.user = "u1" /\ last.pid = "p1_1"
    /\ last.code = HTTP_404_NOT_FOUND
    /\ "p1_1" \in DOMAIN projects /\ projects["p1_1"].user_id = "u2"
    /\ SessionsOf(sessions, "p1_1") # {}

\* C9 as claimed: listing the sessions of a project id that is absent or
\* owned by another user is answered 404, as get_project is.
C9_SessionsNotFound ==
    (last.op = "get_sessions" /\ get_project_by_id(projects, last.pid, last.user) = {})
        => last.code = HTTP_404_NOT_FOUND

\* C10 as claimed: a registration with a fresh email and a fresh username
\* succeeds and gives the new user the whole seed catalog, however many
\* users are registered.
C10_RegistrationSeeds ==
    [][\A user_data \in RegInputs :
          (/\ last'.op = "register" /\ last'.pid = user_data[2]
           /\ get_user_by_email(users, user_data[1]) = {}
           /\ get_user_by_username(users, user_data[2]) = {})
              => /\ last'.code = HTTP_201_CREATED
                 /\ \A i \in 1..Len(INITIAL_DATASET) :
                        /\ INITIAL_DATASET[i].id \in DOMAIN projects'
                        /\ projects'[INITIAL_DATASET[i].id].user_id = last'.user
                        /\ projects'[INITIAL_DATASET[i].id].dependencies
                               = INITIAL_DATASET[i].dependencies]_vars

\* C11: every project that has a session has as time_spent_hours the sum of
\* the durations of its sessions divided by 3600 and rounded to one decimal
\* (the tenth nearest to the quotient; 3600 s is 1.0 and 3600 s + 1800 s is
\* 1.5), whatever time_spent_hours an update of the project carried.
C11_TimeAggregation ==
    \A p \in DOMAIN projects :
        SessionsOf(sessions, p) # {} =>
            LET total == SumDurations(sessions, SessionsOf(sessions, p))
                t     == projects[p].time_spent_hours
            IN  /\ 10 * total - 3600 * t <= 1800
                /\ 3600 * t - 10 * total <= 1800
                /\ total = 3600 => t = 10
                /\ total = 5400 => t = 15

\* C11 witness: an update of p1_1 that carried 7.0 hours completed while p1_1
\* has the sessions 3600 s and 1800 s, and p1_1 stands at 1.5 hours
C11_Witness ==
    /\ last.op = "update" /\ last.pid = "p1_1" /\ last.code = HTTP_200_OK
    /\ {sessions[s].duration_seconds : s \in SessionsOf(sessions, "p1_1")} = {3600, 1800}
    /\ Cardinality(SessionsOf(sessions, "p1_1")) = 2
    /\ projects["p1_1"].time_spent_hours = 15

\* C12 as claimed: every stored session has duration_seconds >= 0, every
\* project has time_spent_hours >= 0, and no add-session request with a
\* negative duration is answered with a created session.
C12_NonNegative ==
    /\ \A s \in DOMAIN sessions : sessions[s].duration_seconds >= 0
    /\ \A p \in DOMAIN projects : projects[p].time_spent_hours >= 0
    /\ (last.op = "add_session" /\ last.code = HTTP_201_CREATED)
           => \A b \in last.body : b.duration_seconds >= 0

\* C13: for every xp >= 0 get_rank_for_xp(xp) is the rank of RANKS with the
\* largest min_xp among those with min_xp <= xp, and below every threshold
\* it is the lowest rank; 0 and 999 are Script Kiddie, 1000 is Code Monkey,
\* 30000 is 10x Engineer; and the rank never falls when xp grows.
C13_RankFor ==
    last.op = "rank" =>
        \A b \in last.body :
            /\ b.rank \in Range(RANKS)
            /\ b.xp >= 0 =>
                  /\ b.rank.min_xp <= b.xp
                  /\ \A q \in Range(RANKS) : q.min_xp <= b.xp => q.min_xp <= b.rank.min_xp
            /\ (\A q \in Range(RANKS) : b.xp < q.min_xp) =>
                  \A q \in Range(RANKS) : b.rank.min_xp <= q.min_xp
            /\ b.xp \in {0, 999} => b.rank.title = "Script Kiddie"
            /\ b.xp = 1000 => b.rank.title = "Code Monkey"
            /\ b.xp = 30000 => b.rank.title = "10x Engineer"
            /\ b.rank.min_xp <= get_rank_for_xp(b.xp + 1).min_xp

\* C13 witness: the rank of 1000 xp was asked for and is Code Monkey
C13_Witness ==
    /\ last.op = "rank"
    /\ \E b \in last.body : b.xp = 1000 /\ b.rank.title = "Code Monkey"

\* C14: for every level >= 0 get_next_level_xp(level) is the integer part of
\* 100 * level^1.5, the integer square root of 10000 * level^3; it is 0 at
\* level 0, 100 at level 1, 282 at level 2; and it grows strictly with level.
C14_XpForLevel ==
    last.op = "next_level_xp" =>
        \A b \in last.body :
            /\ b.xp >= 0
            /\ b.xp * b.xp <= 10000 * b.level * b.level * b.level
            /\ (b.xp + 1) * (b.xp + 1) > 10000 * b.level * b.level * b.level
            /\ b.level = 0 => b.xp = 0
            /\ b.level = 1 => b.xp = 100
            /\ b.level = 2 => b.xp = 282
            /\ b.xp < get_next_level_xp(b.level + 1)

\* C14 witness: the xp of level 2 was asked for and is 282
C14_Witness ==
    /\ last.op = "next_level_xp"
    /\ \E b \in last.body : b.level = 2 /\ b.xp = 282

\* C15: an add-XP request with a negative amount is answered with a
\* validation error and changes nothing: the xp of the profile is neither
\* lowered nor set to zero, and no table is written.
C15_NegativeXpRejected ==
    [][(last'.op = "add_xp" /\ last'.pid < 0)
          => /\ last'.code = HTTP_422_UNPROCESSABLE_ENTITY
             /\ profiles' = profiles
             /\ UNCHANGED <<users, projects, sessions>>]_vars

\* C15 witness: a profile with xp above zero was asked to add -5 xp, the
\* answer is the validation error and the xp is what it was (400 or more)
C15_Witness ==
    /\ last.op = "add_xp" /\ last.pid = -5
    /\ last.code = HTTP_422_UNPROCESSABLE_ENTITY
    /\ profiles[last.user].xp >= 400

\* C16: a completed add-XP with amount a has a >= 0 and leaves the profile
\* with xp + a, so xp does not fall and stays >= 0, and with the level and
\* the badges it had, also when xp reaches the xp of the next level; no
\* other profile and no other table changes.
C16_AddXpFrame ==
    [][(last'.op = "add_xp" /\ last'.code = HTTP_200_OK) =>
          LET u == last'.user
              a == last'.pid
          IN  /\ a >= 0
              /\ profiles'[u].xp = profiles[u].xp + a
              /\ profiles'[u].xp >= profiles[u].xp
              /\ profiles'[u].xp >= 0
              /\ profiles'[u].level = profiles[u].level
              /\ profiles'[u].unlocked_badges = profiles[u].unlocked_badges
              /\ DOMAIN profiles' = DOMAIN profiles
              /\ \A v \in DOMAIN profiles \ {u} : profiles'[v] = profiles[v]
              /\ last'.body = {profiles'[u]}
              /\ UNCHANGED <<users, projects, sessions>>]_vars

\* C16 witness: an add-XP of 400 completed on a profile of level 1, whose xp
\* is now past the 100 xp of the next level, and the level is still 1
C16_Witness ==
    /\ last.op = "add_xp" /\ last.pid = 400 /\ last.code = HTTP_200_OK
    /\ profiles[last.user].level = 1
    /\ profiles[last.user].xp >= get_next_level_xp(1)

\* C17: the stats query answers with the xp and the level of the caller's
\* profile, the number of the caller's done projects and of the caller's
\* projects, the title of the rank with the largest min_xp <= xp, the xp of
\* the stored level as next_level_xp and, as current_level_xp, the xp of
\* level - 1 for a level above 1 and 0 otherwise; so completed <= total and
\* current_level_xp < next_level_xp; and the query changes no table.
C17_Stats ==
    [][(last'.op = "stats") =>
          LET u    == last'.user
              mine == {p \in DOMAIN projects : projects[p].user_id = u}
              rank == CHOOSE r \in Range(RANKS) :
                          /\ r.min_xp <= profiles[u].xp
                          /\ \A q \in Range(RANKS) :
                                 q.min_xp <= profiles[u].xp => q.min_xp <= r.min_xp
          IN  /\ last'.code = HTTP_200_OK
              /\ UNCHANGED <<users, profiles, projects, sessions>>
              /\ \E b \in last'.body :
                    /\ last'.body = {b}
                    /\ b.xp = profiles[u].xp
                    /\ b.level = profiles[u].level
                    /\ b.completed_projects =
                           Cardinality({p \in mine : projects[p].status = DONE})
                    /\ b.total_projects = Cardinality(mine)
                    /\ b.rank_title = rank.title
                    /\ b.next_level_xp = get_next_level_xp(profiles[u].level)
                    /\ b.current_level_xp =
                           IF profiles[u].level > 1
                           THEN get_next_level_xp(profiles[u].level - 1) ELSE 0
                    /\ b.completed_projects <= b.total_projects
                    /\ b.current_level_xp < b.next_level_xp]_vars

\* C17 witness: the stats of a profile of level 2 with 1000 xp or more and
\* two done projects out of nine: Code Monkey or above, between 100 and 282
C17_Witness ==
    /\ last.op = "stats" /\ last.code = HTTP_200_OK
    /\ \E b \in last.body :
          /\ b.level = 2 /\ b.xp >= 1000
          /\ b.completed_projects = 2 /\ b.total_projects = 9
          /\ b.rank_title # "Script Kiddie"
          /\ b.current_level_xp = 100 /\ b.next_level_xp = 282

\* a user of table us has the email or the username of user_data, up to case
MatchesUser(us, user_data) ==
    \E u \in DOMAIN us :
        \/ Lower(us[u].email) = Lower(user_data[1])
        \/ Lower(us[u].username) = Lower(user_data[2])

\* this step answers a registration of user_data: at its checks (nothing in
\* flight changes) or at its commit (it leaves the requests in flight)
RegistrationAnswered(user_data) ==
    /\ last'.op = "register" /\ last'.pid = user_data[2]
    /\ \/ last' # last /\ DOMAIN inflight' = DOMAIN inflight
       \/ \E t \in DOMAIN inflight \ DOMAIN inflight' : inflight[t].user_data = user_data

\* C18 as claimed: emails and usernames are stored lowercased and no two
\* users share one up to case, also when registrations overlap; and a
\* registration that is answered while a user with its email or its username
\* (up to case) exists is answered 400 and creates no user, profile or project.
C18_UserUniqueness ==
    [][/\ \A u \in DOMAIN users' :
              /\ users'[u].email = Lower(users'[u].email)
              /\ users'[u].username = Lower(users'[u].username)
       /\ \A u, v \in DOMAIN users' :
              u # v => /\ Lower(users'[u].email) # Lower(users'[v].email)
                       /\ Lower(users'[u].username) # Lower(users'[v].username)
       /\ \A user_data \in RaceInputs :
              (MatchesUser(users, user_data) /\ RegistrationAnswered(user_data))
                  => /\ last'.code = HTTP_400_BAD_REQUEST
                     /\ UNCHANGED <<users, profiles, projects>>]_vars

\* C19: in every committed state the users and the profiles are the same
\* accounts (user_profiles.user_id is unique and the model keys profiles by
\* it), a new account gets its profile in the same step, with xp 0, level 1
\* and no badges, and a registration that is answered with an error, be it
\* at the checks, at the INSERT of the user or while seeding, leaves users,
\* profiles and projects as they were.
C19_ProfileAtomicity ==
    [][/\ DOMAIN profiles' = DOMAIN users'
       /\ \A u \in DOMAIN users' \ DOMAIN users :
              /\ profiles'[u].xp = 0
              /\ profiles'[u].level = 1
              /\ profiles'[u].unlocked_badges = {}
              /\ last'.op = "register" /\ last'.code = HTTP_201_CREATED /\ last'.user = u
       /\ (last'.op = "register" /\ last'.code # HTTP_201_CREATED)
              => UNCHANGED <<users, profiles, projects>>]_vars

\* C19 witness: bob's registration passed the checks (no user has his email
\* or his username) and failed while seeding, on the seed projects of the
\* only account; there is still one user, one profile and no project of bob
C19_Witness ==
    /\ last.op = "register" /\ last.pid = "bob"
    /\ last.code = HTTP_500_INTERNAL_SERVER_ERROR
    /\ ~MatchesUser(users, <<"A@x.io", "bob">>)
    /\ Cardinality(DOMAIN users) = 1
    /\ DOMAIN profiles = DOMAIN users
    /\ DOMAIN projects # {}
    /\ \A p \in DOMAIN projects : projects[p].user_id \in DOMAIN users

\* C20 as claimed: when two creates or updates of one user have overlapped
\* and both have committed, the projects are as after the two in some serial
\* order, so that every locked or unlocked project of the user is unlocked
\* if and only if all its dependencies are done.
C20_Serialized ==
    (/\ inflight = EmptyTable
     /\ last.op \in {"create", "update"}
     /\ last.code \in {HTTP_200_OK, HTTP_201_CREATED})
        => StatusInvariant(projects, last.user)

\* C21 as claimed: an add-XP request that succeeds raises the stored xp by
\* exactly its amount, whatever other add-XP request of the same profile is
\* in flight; so two requests with amounts a and b that overlap and both
\* succeed raise the stored xp by a + b.
C21_NoLostXp ==
    [][\A t \in (DOMAIN inflight) \ (DOMAIN inflight') :
          (inflight[t].op = "add_xp" /\ last'.code = HTTP_200_OK)
              => profiles'[inflight[t].user].xp
                     = profiles[inflight[t].user].xp + inflight[t].amount]_vars

\* C22 as claimed: once the add-session requests that overlapped have all
\* committed, every project that has a session has as time_spent_hours the
\* sum of the durations of all its stored sessions, in hours and rounded to
\* one decimal.
C22_TimeUnderOverlap ==
    inflight = EmptyTable =>
        \A p \in DOMAIN projects :
            SessionsOf(sessions, p) # {} =>
                LET total == SumDurations(sessions, SessionsOf(sessions, p))
                    t     == projects[p].time_spent_hours
                IN  /\ 10 * total - 3600 * t <= 1800
                    /\ 3600 * t - 10 * total <= 1800

MalformedEmail(body) == Text(body.email) \notin {"a@x.io", "b@x.io"}

\* the username of a request body is shorter than 3 characters or is not
\* made of letters, digits, underscores and dashes with a letter or digit
BadUsername(body) ==
    \/ Len(body.username) < 3
    \/ Text(body.username) \in {"a!b", "_-_"}

\* C24: a registration whose email is malformed, whose password is shorter
\* than 8 characters or whose username is shorter than 3 characters or not
\* alphanumeric is answered with the validation error, which names the
\* field, and creates no user, no profile and no project.
C24_RegisterValidation ==
    [][\A body \in RawBodies :
          (/\ last'.op = "register" /\ last'.pid = body
           /\ (MalformedEmail(body) \/ Len(body.password) < 8 \/ BadUsername(body)))
              => /\ last'.code = HTTP_422_UNPROCESSABLE_ENTITY
                 /\ MalformedEmail(body) => \E e \in last'.body : e.field = "body.email"
                 /\ Len(body.password) < 8 => \E e \in last'.body : e.field = "body.password"
                 /\ BadUsername(body) => \E e \in last'.body : e.field = "body.username"
                 /\ UNCHANGED <<users, profiles, projects, sessions>>]_vars

\* C24 witness: on the empty database a registration with a well-formed
\* email and username and the password of 7 characters was rejected, and
\* there is still no user, profile or project
C24_Witness ==
    /\ last.op = "register" /\ last.code = HTTP_422_UNPROCESSABLE_ENTITY
    /\ Text(last.pid.email) = "a@x.io" /\ Text(last.pid.username) = "a_b"
    /\ Len(last.pid.password) = 7
    /\ users = EmptyTable /\ profiles = EmptyTable /\ projects = EmptyTable

\* the Authorization header carries no token, or a token that is not signed
\* with the key of the service, has expired or names no subject
BadCredential(token) ==
    \/ token = {}
    \/ \E tk \in token :
          \/ tk.key # "secret"
          \/ tk.expired
          \/ "sub" \notin DOMAIN tk.payload

\* C25: a project, session or profile request that carries a missing or
\* invalid credential is answered Unauthenticated (401), for no user and
\* with the error detail as its only content, and no table changes.
C25_Unauthenticated ==
    [][\A t \in (DOMAIN inflight) \ (DOMAIN inflight') :
          BadCredential(inflight[t].token)
              => /\ last'.op = inflight[t].op
                 /\ last'.code = HTTP_401_UNAUTHORIZED
                 /\ last'.user = ""
                 /\ last'.body = {[detail |-> "Could not validate credentials"]}
                 /\ UNCHANGED <<users, profiles, projects, sessions>>]_vars

\* C25 witness: a delete of p1_3 was answered Unauthenticated while a user
\* is registered who owns p1_3 and has a session, and p1_3 is still there
C25_Witness ==
    /\ last.op = "delete" /\ last.pid = "p1_3" /\ last.code = HTTP_401_UNAUTHORIZED
    /\ "p1_3" \in DOMAIN projects
    /\ projects["p1_3"].user_id \in DOMAIN users
    /\ DOMAIN sessions # {}

\* C26 as claimed: no update whose patch passes the validation of the
\* request, a patch that sets dependencies or status to null included, is
\* answered with an internal failure: the resolver pass after it completes.
C26_UpdateNeverRaises ==
    last.op = "update" => last.code \in {HTTP_200_OK, HTTP_404_NOT_FOUND}

\* the status of the target after an update: the value v the patch set or
\* left, or v changed by the resolver pass (locked to unlocked or back)
StatusFromPatch(before, after, body) ==
    LET v == IF "status" \in DOMAIN body THEN body.status ELSE before.status
    IN  after.status = v \/ {v, after.status} = {LOCKED, UNLOCKED}

\* C27 as claimed: a completed update overwrites exactly the fields of the
\* target that the patch sets, with the values of the patch, and leaves
\* every other field as it was; the status is the one the patch set or left,
\* unless the resolver pass changes it.
C27_PatchSemantics ==
    [][\A t \in (DOMAIN inflight) \ (DOMAIN inflight') :
          (inflight[t].op = "update" /\ last'.code = HTTP_200_OK) =>
              LET body   == inflight[t].body
                  before == projects[inflight[t].pid]
                  after  == projects'[inflight[t].pid]
              IN  /\ \A f \in {"dependencies", "checklist", "resources", "time_spent_hours"} :
                         after[f] = IF f \in DOMAIN body THEN body[f] ELSE before[f]
                  /\ after.user_id = before.user_id
                  /\ StatusFromPatch(before, after, body)]_vars

\* C27 amended: as C27, except that the time_spent_hours of a target that
\* has sessions is after the update the rounded sum of their durations,
\* whatever the patch carries; without sessions it is the value of the
\* patch, or the previous value if the patch leaves it out.
C27_PatchSemanticsAmended ==
    [][\A t \in (DOMAIN inflight) \ (DOMAIN inflight') :
          (inflight[t].op = "update" /\ last'.code = HTTP_200_OK) =>
              LET body   == inflight[t].body
                  pid    == inflight[t].pid
                  before == projects[pid]
                  after  == projects'[pid]
                  total  == SumDurations(sessions, SessionsOf(sessions, pid))
              IN  /\ \A f \in {"dependencies", "checklist", "resources"} :
                         after[f] = IF f \in DOMAIN body THEN body[f] ELSE before[f]
                  /\ IF SessionsOf(sessions, pid) # {}
                     THEN /\ 10 * total - 3600 * after.time_spent_hours <= 1800
                          /\ 3600 * after.time_spent_hours - 10 * total <= 1800
                     ELSE after.time_spent_hours =
                              IF "time_spent_hours" \in DOMAIN body
                              THEN body.time_spent_hours ELSE before.time_spent_hours
                  /\ after.user_id = before.user_id
                  /\ StatusFromPatch(before, after, body)]_vars

\* C27 witness: an update of p1_2 completed; p1_2 has the checklist an
\* earlier patch set, the status in_progress of a later patch, and, with
\* its one session of 1800 s, 0.5 hours although that patch carried 7.0
C27_Witness ==
    /\ last.op = "update" /\ last.pid = "p1_2" /\ last.code = HTTP_200_OK
    /\ inflight = EmptyTable
    /\ projects["p1_2"].checklist = <<"t1">>
    /\ projects["p1_2"].status = IN_PROGRESS
    /\ Cardinality(SessionsOf(sessions, "p1_2")) = 1
    /\ projects["p1_2"].time_spent_hours = 5

\* C28: the project_id of every session is the id of a project; an
\* add-session that names a project that does not exist or belongs to
\* another user is answered 404 and stores no session; and a completed
\* delete of a project removes, in the same request, all its sessions and
\* no session of another project.
C28_SessionOwnership ==
    [][/\ \A s \in DOMAIN sessions' : sessions'[s].project_id \in DOMAIN projects'
       /\ (/\ last'.op = "add_session"
           /\ \/ last'.pid \notin DOMAIN projects
              \/ projects[last'.pid].user_id # last'.user)
              => /\ last'.code = HTTP_404_NOT_FOUND
                 /\ sessions' = sessions
       /\ (last'.op = "delete" /\ last'.code = HTTP_200_OK)
              => /\ \A s \in DOMAIN sessions' : sessions'[s].project_id # last'.pid
                 /\ \A s \in DOMAIN sessions :
                        sessions[s].project_id # last'.pid
                            => s \in DOMAIN sessions' /\ sessions'[s] = sessions[s]]_vars

\* C28 witness: bob has deleted p1_1, which had a session; p1_1 and its
\* session are gone and the session of p1_2 is still there
C28_Witness ==
    /\ last.op = "delete" /\ last.pid = "p1_1" /\ last.code = HTTP_200_OK
    /\ "p1_1" \notin DOMAIN projects
    /\ Cardinality(DOMAIN sessions) = 1
    /\ \A s \in DOMAIN sessions : sessions[s].project_id = "p1_2"
    /\ generate_session_id(sessions) = 1

\* the ids of the done projects of user u in table tbl
DoneOf(tbl, u) == {p \in DOMAIN tbl : tbl[p].user_id = u /\ tbl[p].status = DONE}

\* row b is row a in every field but status
SameButStatus(a, b) ==
    /\ DOMAIN b = DOMAIN a
    /\ \A f \in (DOMAIN a) \ {"status"} : b[f] = a[f]

\* C29: a resolver pass for user U adds and removes no project, changes no
\* project of another user, and of the projects of U changes only the
\* status of projects that were locked or unlocked, to locked or unlocked;
\* the done projects of every user are the same before and after; the new
\* status is decided by the done projects of U alone (a done project of
\* another user unlocks nothing); users, profiles and sessions are as before.
C29_ResolverFrame ==
    [][last'.op = "resolve" =>
          /\ DOMAIN projects' = DOMAIN projects
          /\ UNCHANGED <<users, profiles, sessions>>
          /\ \A p \in DOMAIN projects :
                 /\ projects[p].user_id # last'.user => projects'[p] = projects[p]
                 /\ SameButStatus(projects[p], projects'[p])
                 /\ projects'[p].status # projects[p].status
                        => /\ projects[p].status \in {LOCKED, UNLOCKED}
                           /\ projects'[p].status \in {LOCKED, UNLOCKED}
                           /\ (projects'[p].status = UNLOCKED)
                                  = all_deps_met(DoneOf(projects, last'.user),
                                                 projects[p].dependencies)
          /\ \A u \in DOMAIN users : DoneOf(projects', u) = DoneOf(projects, u)]_vars

\* C29 witness: after a pass for u1, p1_2 of u1 is still locked although its
\* only dependency p1_1 is a done project, of u2; custom_1 of u1 has no
\* dependency and is unlocked
C29_Witness ==
    /\ last.op = "resolve" /\ last.user = "u1"
    /\ projects["p1_1"].user_id = "u2" /\ projects["p1_1"].status = DONE
    /\ projects["p1_2"].user_id = "u1" /\ projects["p1_2"].status = LOCKED
    /\ projects["p1_2"].dependencies = <<"p1_1">>
    /\ projects["custom_1"].user_id = "u1" /\ projects["custom_1"].status = UNLOCKED
    /\ projects["custom_1"].dependencies = <<>>

\* C30: the projects of a freshly registered user, with the statuses of the
\* seed catalog as written by the registration, satisfy the status
\* invariant: a resolver pass over them changes no status.
C30_SeedConsistent ==
    \A u \in DOMAIN users :
        SeedState(projects, u)
            => /\ StatusInvariant(projects, u)
               /\ check_project_dependencies(projects, u) = projects

=============================================================================
